---- MODULE Spec2Model ----
(***************************************************************************)
(* Model of the tesuji SGF core: the arena game tree (sgf/tree.rs), the    *)
(* property model (sgf/node.rs), the parser and serializer (sgf/parser.rs, *)
(* sgf/serializer.rs), the board replay (sgf/board.rs) and the editor      *)
(* command layer (editor/mod.rs).                                          *)
(*                                                                         *)
(* Text is a sequence of one-character strings.  NodeIds are 0-based as in *)
(* the source; the arena is a TLA+ sequence, so node id lives at index     *)
(* id + 1.  Option<NodeId>::None is the integer None.                      *)
(***************************************************************************)
EXTENDS Integers, Sequences, FiniteSets, TLC

\* ------------------------------------------------------------------------
\* Bounds of the model
\* ------------------------------------------------------------------------

\* Largest arena the editor specification grows a tree to.
MaxNodes == 3

\* Number of lexemes of the exhaustively enumerated input texts.
MaxLexemes == 4

\* ------------------------------------------------------------------------
\* Integer helpers with the semantics of Rust's operators
\* ------------------------------------------------------------------------

\* Rust integer division truncates toward zero.
TruncDiv(a, b) == IF a >= 0 THEN a \div b ELSE -((-a) \div b)

\* Rust remainder takes the sign of the dividend.
TruncRem(a, b) == a - b * TruncDiv(a, b)

Min(a, b) == IF a < b THEN a ELSE b

Max(a, b) == IF a > b THEN a ELSE b

RECURSIVE Pow10(_)
Pow10(k) == IF k = 0 THEN 1 ELSE 10 * Pow10(k - 1)

\* ------------------------------------------------------------------------
\* Characters
\* ------------------------------------------------------------------------

\* The characters b'a' + v for v = 0..31 (GoCoord::first / second).
Letters ==
  << "a", "b", "c", "d", "e", "f", "g", "h", "i", "j", "k", "l", "m",
     "n", "o", "p", "q", "r", "s", "t", "u", "v", "w", "x", "y", "z",
     "{", "|", "}", "~", "DEL", "x80" >>

Upper ==
  { "A", "B", "C", "D", "E", "F", "G", "H", "I", "J", "K", "L", "M",
    "N", "O", "P", "Q", "R", "S", "T", "U", "V", "W", "X", "Y", "Z" }

Digits == << "0", "1", "2", "3", "4", "5", "6", "7", "8", "9" >>

IsLower(c) == \E i \in 1..26 : Letters[i] = c

IsDigit(c) == \E i \in 1..10 : Digits[i] = c

DigitVal(c) == (CHOOSE i \in 1..10 : Digits[i] = c) - 1

LetterVal(c) == (CHOOSE i \in 1..26 : Letters[i] = c) - 1

\* Concatenation of a sequence of texts.
RECURSIVE Cat(_)
Cat(ts) == IF ts = << >> THEN << >> ELSE Head(ts) \o Cat(Tail(ts))

\* Decimal rendering of a non-negative integer ({} of an unsigned value).
RECURSIVE NatToText(_)
NatToText(n) ==
  IF n < 10 THEN << Digits[n + 1] >>
  ELSE NatToText(n \div 10) \o << Digits[(n % 10) + 1] >>

\* Decimal rendering of a signed integer ({} of an i16).
IntToText(n) == IF n < 0 THEN << "-" >> \o NatToText(-n) ELSE NatToText(n)

\* Value of a non-empty run of decimal digits.
RECURSIVE DigitsVal(_)
DigitsVal(s) ==
  IF s = << >> THEN 0
  ELSE 10 * DigitsVal(SubSeq(s, 1, Len(s) - 1)) + DigitVal(s[Len(s)])

AllDigits(s) == \A i \in 1..Len(s) : IsDigit(s[i])

\* ------------------------------------------------------------------------
\* GoCoord (sgf/node.rs)
\* ------------------------------------------------------------------------

None == -1

\* Result<T>: Err, or Ok carrying a value.
Err == [ok |-> FALSE]

Ok(v) == [ok |-> TRUE, val |-> v]

\* GoCoord::new's encode closure: a lowercase letter below 't'.
encode(c) == IF IsLower(c) /\ LetterVal(c) < 19 THEN LetterVal(c) ELSE None

GoCoord_new(a, b) ==
  IF encode(a) = None \/ encode(b) = None THEN Err
  ELSE Ok(encode(a) + 32 * encode(b))

from_colrow(col, row) == (col + 32 * row) % 65536

pass == 19 + 32 * 19

is_pass(c) == (c % 32) = 19

\* The 5-bit fields; first() and second() are the letters at these indices.
firstField(c) == c % 32

secondField(c) == (c \div 32) % 32

first(c) == Letters[firstField(c) + 1]

second(c) == Letters[secondField(c) + 1]

GoCoord_Display(c) == << first(c), second(c) >>

GoCoord_from_str(s) ==
  IF Len(s) # 2 THEN Err ELSE GoCoord_new(s[1], s[2])

\* ------------------------------------------------------------------------
\* Komi, GameType, FileFormat, Charset, u8 (sgf/node.rs)
\* ------------------------------------------------------------------------

\* str::parse::<f64> restricted to texts of the form [+-] digits [. digits]
\* with at least one digit; the magnitude is returned as num / den.  Texts
\* with an exponent, "inf" or "nan" are outside the inputs of the model.
F64_from_str(s) ==
  LET signed == Len(s) > 0 /\ s[1] \in {"+", "-"}
      body   == IF signed THEN Tail(s) ELSE s
      dots   == {i \in 1..Len(body) : body[i] = "."}
      ip     == IF dots = {} THEN body
                ELSE SubSeq(body, 1, (CHOOSE i \in dots : TRUE) - 1)
      fp     == IF dots = {} THEN << >>
                ELSE SubSeq(body, (CHOOSE i \in dots : TRUE) + 1, Len(body))
  IN IF Cardinality(dots) > 1 \/ ~AllDigits(ip) \/ ~AllDigits(fp)
        \/ Len(ip) + Len(fp) = 0
     THEN Err
     ELSE Ok([neg |-> signed /\ s[1] = "-",
              num |-> DigitsVal(ip) * Pow10(Len(fp)) + DigitsVal(fp),
              den |-> Pow10(Len(fp))])

\* Komi::new: (n * 2.0).round() as i16; round is half away from zero and
\* the cast saturates.
Komi_new(f) ==
  LET mag == (4 * f.num + f.den) \div (2 * f.den)
      v   == IF f.neg THEN -mag ELSE mag
  IN Max(-32768, Min(32767, v))

Komi_from_str(s) ==
  LET f == F64_from_str(s) IN IF f.ok THEN Ok(Komi_new(f.val)) ELSE Err

Komi_Display(n) ==
  IF TruncRem(n, 2) = 0 THEN IntToText(TruncDiv(n, 2))
  ELSE IntToText(TruncDiv(n, 2)) \o << ".", "5" >>

\* str::parse::<u8>: an optional '+', one or more digits, at most 255.
U8_from_str(s) ==
  LET body == IF Len(s) > 0 /\ s[1] = "+" THEN Tail(s) ELSE s
  IN IF Len(body) = 0 \/ ~AllDigits(body) THEN Err
     ELSE IF DigitsVal(body) > 255 THEN Err
     ELSE Ok(DigitsVal(body))

\* GameType is kept as its number: Go is 1, Other(n) is n.
GameType_from_str(s) == U8_from_str(s)

GameType_Display(n) == NatToText(n)

FileFormat_from_str(s) ==
  IF Len(s) = 1 /\ s[1] \in {"1", "2", "3", "4"} THEN Ok(DigitVal(s[1]))
  ELSE Err

FileFormat_Display(n) == NatToText(n)

T_UTF8 == << "U", "T", "F", "-", "8" >>

T_utf8 == << "u", "t", "f", "-", "8" >>

T_Latin1 == << "L", "a", "t", "i", "n", "-", "1" >>

T_ISO == << "I", "S", "O", "-", "8", "8", "5", "9", "-", "1" >>

\* Charset is kept as [kind, other]: UTF8, Latin1 or Other(text).
Charset_from_str(s) ==
  IF s = T_UTF8 \/ s = T_utf8 THEN Ok([kind |-> "UTF8", other |-> << >>])
  ELSE IF s = T_Latin1 \/ s = T_ISO
       THEN Ok([kind |-> "Latin1", other |-> << >>])
  ELSE Ok([kind |-> "Other", other |-> s])

Charset_Display(c) ==
  IF c.kind = "UTF8" THEN T_UTF8
  ELSE IF c.kind = "Latin1" THEN T_Latin1
  ELSE c.other

\* ------------------------------------------------------------------------
\* SGFProperty (sgf/node.rs)
\* ------------------------------------------------------------------------

\* An SGFProperty is a record with one field per payload shape:
\*   n  - the GoCoord of B and W, the half-points of KM, the number of SZ,
\*        GM and FF, the Charset variant of CA (0 UTF8, 1 Latin1, 2 Other)
\*   cs - the coordinates of AB and AW
\*   s  - the text of AP, DT, PB, PW, RE, C and CA Other, the key of Unknown
\*   vs - the raw values of Unknown
Prop(tag, n, cs, s, vs) == [tag |-> tag, n |-> n, cs |-> cs, s |-> s, vs |-> vs]

PropB(c) == Prop("B", c, << >>, << >>, << >>)

PropW(c) == Prop("W", c, << >>, << >>, << >>)

PropAB(coords) == Prop("AB", 0, coords, << >>, << >>)

PropAW(coords) == Prop("AW", 0, coords, << >>, << >>)

PropNum(tag, n) == Prop(tag, n, << >>, << >>, << >>)

PropText(tag, s) == Prop(tag, 0, << >>, s, << >>)

PropCA(c) ==
  Prop("CA", IF c.kind = "UTF8" THEN 0 ELSE IF c.kind = "Latin1" THEN 1 ELSE 2,
       << >>, c.other, << >>)

PropUnknown(ident, values) == Prop("Unknown", 0, << >>, ident, values)

\* The identifier text of each known tag.
TagIdent ==
  [AP |-> << "A", "P" >>, B |-> << "B" >>, W |-> << "W" >>,
   AB |-> << "A", "B" >>, AW |-> << "A", "W" >>, CA |-> << "C", "A" >>,
   DT |-> << "D", "T" >>, FF |-> << "F", "F" >>, GM |-> << "G", "M" >>,
   KM |-> << "K", "M" >>, SZ |-> << "S", "Z" >>, PB |-> << "P", "B" >>,
   PW |-> << "P", "W" >>, RE |-> << "R", "E" >>, C |-> << "C" >>]

KnownTags == DOMAIN TagIdent

Bracket(s) == << "[" >> \o s \o << "]" >>

\* A BracketAll that leaves out the empty values.
RECURSIVE BracketAll_nonempty(_)
BracketAll_nonempty(vs) ==
  IF vs = << >> THEN << >>
  ELSE (IF Head(vs) = << >> THEN << >> ELSE Bracket(Head(vs)))
         \o BracketAll_nonempty(Tail(vs))

RECURSIVE BracketAll(_)
BracketAll(vs) ==
  IF vs = << >> THEN << >> ELSE Bracket(Head(vs)) \o BracketAll(Tail(vs))

RECURSIVE CoordTexts(_)
CoordTexts(cs) ==
  IF cs = << >> THEN << >>
  ELSE << GoCoord_Display(Head(cs)) >> \o CoordTexts(Tail(cs))

\* impl Display for SGFProperty
SGFProperty_Display(p) ==
  CASE p.tag \in {"B", "W"} ->
         TagIdent[p.tag] \o Bracket(GoCoord_Display(p.n))
    [] p.tag \in {"AB", "AW"} ->
         TagIdent[p.tag] \o BracketAll(CoordTexts(p.cs))
    [] p.tag = "CA" ->
         TagIdent["CA"] \o Bracket(Charset_Display(
           [kind |-> IF p.n = 0 THEN "UTF8"
                     ELSE IF p.n = 1 THEN "Latin1" ELSE "Other",
            other |-> p.s]))
    [] p.tag = "FF" -> TagIdent["FF"] \o Bracket(FileFormat_Display(p.n))
    [] p.tag = "GM" -> TagIdent["GM"] \o Bracket(GameType_Display(p.n))
    [] p.tag = "KM" -> TagIdent["KM"] \o Bracket(Komi_Display(p.n))
    [] p.tag = "SZ" -> TagIdent["SZ"] \o Bracket(NatToText(p.n))
    [] p.tag \in {"AP", "DT", "PB", "PW", "RE", "C"} ->
         TagIdent[p.tag] \o Bracket(p.s)
    [] p.tag = "Unknown" -> p.s \o BracketAll(p.vs)

\* filter_map(|v| v.parse().ok()) over the values of AB and AW.
RECURSIVE ParseCoordsLenient(_)
ParseCoordsLenient(values) ==
  IF values = << >> THEN << >>
  ELSE LET c == GoCoord_from_str(Head(values))
       IN (IF c.ok THEN << c.val >> ELSE << >>)
            \o ParseCoordsLenient(Tail(values))

\* SGFParser::property: the typed property of an identifier and its values.
property(ident, values) ==
  LET first_val == IF values = << >> THEN << >> ELSE values[1]
      tags == {t \in KnownTags : TagIdent[t] = ident}
      tag  == IF tags = {} THEN "Unknown" ELSE CHOOSE t \in tags : TRUE
      coord == GoCoord_from_str(first_val)
      num == CASE tag = "FF" -> FileFormat_from_str(first_val)
               [] tag = "GM" -> GameType_from_str(first_val)
               [] tag = "KM" -> Komi_from_str(first_val)
               [] tag = "SZ" -> U8_from_str(first_val)
               [] OTHER -> Err
  IN CASE tag \in {"AP", "DT", "PB", "PW", "RE", "C"} ->
            Ok(PropText(tag, first_val))
       [] tag \in {"B", "W"} ->
            IF coord.ok THEN Ok(Prop(tag, coord.val, << >>, << >>, << >>))
            ELSE Err
       [] tag = "AB" -> Ok(PropAB(ParseCoordsLenient(values)))
       [] tag = "AW" -> Ok(PropAW(ParseCoordsLenient(values)))
       [] tag = "CA" -> Ok(PropCA(Charset_from_str(first_val).val))
       [] tag \in {"FF", "GM", "KM", "SZ"} ->
            IF num.ok THEN Ok(PropNum(tag, num.val)) ELSE Err
       [] tag = "Unknown" -> Ok(PropUnknown(ident, values))

\* ------------------------------------------------------------------------
\* Grammar (sgf.pest): the structural parse
\*   file := collection* END        collection := '(' node* collection* ')'
\*   node := ';' property*          property := ident value+
\*   value := '[' text ']'          ident := one or more uppercase letters
\* A PEG: every repetition is greedy and nothing is re-tried.
\* ------------------------------------------------------------------------

At(t, i) == IF i >= 1 /\ i <= Len(t) THEN t[i] ELSE "EOI"

\* Position after the longest run of uppercase letters starting at i.
RECURSIVE IdentEnd(_, _)
IdentEnd(t, i) == IF At(t, i) \in Upper THEN IdentEnd(t, i + 1) ELSE i

\* value: '[' text ']', text being every character up to the next ']'.
ParseValue(t, i) ==
  LET closes == {j \in (i + 1)..Len(t) : t[j] = "]"}
      j == CHOOSE k \in closes : \A m \in closes : k <= m
  IN IF At(t, i) # "[" \/ closes = {} THEN [ok |-> FALSE, pos |-> i]
     ELSE [ok |-> TRUE, pos |-> j + 1, val |-> SubSeq(t, i + 1, j - 1)]

\* A repetition: the item x followed by the items of the parse r.
Prepend(x, r) == [pos |-> r.pos, val |-> << x >> \o r.val]

RECURSIVE ParseValues(_, _)
ParseValues(t, i) ==
  LET v == ParseValue(t, i)
  IN IF ~v.ok THEN [pos |-> i, val |-> << >>]
     ELSE Prepend(v.val, ParseValues(t, v.pos))

\* ident value+ with the values vs parsed from position e on.
PropertyOf(t, i, e, vs) ==
  IF e = i \/ vs.val = << >> THEN [ok |-> FALSE, pos |-> i]
  ELSE [ok |-> TRUE, pos |-> vs.pos,
        val |-> [ident |-> SubSeq(t, i, e - 1), values |-> vs.val]]

\* property: ident value+, as the pair of the identifier and its values.
ParseProperty(t, i) ==
  PropertyOf(t, i, IdentEnd(t, i), ParseValues(t, IdentEnd(t, i)))

RECURSIVE ParseProperties(_, _)
ParseProperties(t, i) ==
  LET p == ParseProperty(t, i)
  IN IF ~p.ok THEN [pos |-> i, val |-> << >>]
     ELSE Prepend(p.val, ParseProperties(t, p.pos))

\* The nodes after a node whose properties are the parse ps.
RECURSIVE ParseNodes(_, _)
NodesAfter(t, ps) == Prepend(ps.val, ParseNodes(t, ps.pos))

\* node*: each node is ';' property*.
ParseNodes(t, i) ==
  IF At(t, i) # ";" THEN [pos |-> i, val |-> << >>]
  ELSE NodesAfter(t, ParseProperties(t, i + 1))

\* '(' node* collection* ')' with its nodes ns and sub-collections cs.
CollectionOf(t, i, ns, cs) ==
  IF At(t, cs.pos) # ")" THEN [ok |-> FALSE, pos |-> i]
  ELSE [ok |-> TRUE, pos |-> cs.pos + 1,
        val |-> [nodes |-> ns.val, children |-> cs.val]]

RECURSIVE ParseCollection(_, _)
RECURSIVE ParseCollections(_, _)
CollectionAfter(t, i, ns) == CollectionOf(t, i, ns, ParseCollections(t, ns.pos))

ParseCollection(t, i) ==
  IF At(t, i) # "(" THEN [ok |-> FALSE, pos |-> i]
  ELSE CollectionAfter(t, i, ParseNodes(t, i + 1))

ParseCollections(t, i) ==
  LET c == ParseCollection(t, i)
  IN IF ~c.ok THEN [pos |-> i, val |-> << >>]
     ELSE Prepend(c.val, ParseCollections(t, c.pos))

\* SGFParser::parse(Rule::file, input): the parse tree, or an error.
ParseFile(t) ==
  LET cs == ParseCollections(t, 1)
  IN IF cs.pos = Len(t) + 1 THEN Ok(cs.val) ELSE Err

\* ------------------------------------------------------------------------
\* SGFParser::node / object / file (sgf/parser.rs): typed properties
\* ------------------------------------------------------------------------

AllOk(rs) == \A i \in 1..Len(rs) : rs[i].ok

Vals(rs) == [i \in 1..Len(rs) |-> rs[i].val]

\* SGFParser::node: the properties of one node, failing on the first error.
SGFParser_node(raw) ==
  LET rs == [i \in 1..Len(raw) |-> property(raw[i].ident, raw[i].values)]
  IN IF AllOk(rs) THEN Ok(Vals(rs)) ELSE Err

\* SGFParser::object: a ParsedObject [nodes, children].
RECURSIVE SGFParser_object(_)
SGFParser_object(raw) ==
  LET ns == [i \in 1..Len(raw.nodes) |-> SGFParser_node(raw.nodes[i])]
      cs == [i \in 1..Len(raw.children) |-> SGFParser_object(raw.children[i])]
  IN IF AllOk(ns) /\ AllOk(cs)
     THEN Ok([nodes |-> Vals(ns), children |-> Vals(cs)])
     ELSE Err

\* SGFParser::file: the ParsedObjects of the top-level collections.
SGFParser_file(raws) ==
  LET os == [i \in 1..Len(raws) |-> SGFParser_object(raws[i])]
  IN IF AllOk(os) THEN Ok(Vals(os)) ELSE Err

\* ------------------------------------------------------------------------
\* GameTree (sgf/tree.rs) and arena ingestion (sgf/parser.rs)
\* ------------------------------------------------------------------------

TreeNode(props, parent, children) ==
  [properties |-> props, parent |-> parent, children |-> children]

GameTree(nodes, roots) == [nodes |-> nodes, roots |-> roots]

GameTree_new == GameTree(<< TreeNode(<< >>, None, << >>) >>, << 0 >>)

InArena(tree, id) == id >= 0 /\ id < Len(tree.nodes)

\* GameTree::node: the node of an id of the arena.
node(tree, id) == tree.nodes[id + 1]

PushChild(nodes, parent, id) ==
  [nodes EXCEPT ![parent + 1].children = Append(@, id)]

\* The straight-line nodes of ingest_object, chained parent to child.
RECURSIVE ingest_nodes(_, _, _, _)
ingest_nodes(nodes, propsList, last_id, first_id) ==
  IF propsList = << >>
  THEN [nodes |-> nodes, last_id |-> last_id, first_id |-> first_id]
  ELSE LET id == Len(nodes)
           pushed == Append(nodes, TreeNode(Head(propsList), last_id, << >>))
           linked == IF last_id # None THEN PushChild(pushed, last_id, id)
                     ELSE pushed
       IN ingest_nodes(linked, Tail(propsList), id,
                       IF first_id = None THEN id ELSE first_id)

RECURSIVE ingest_object(_, _, _)
RECURSIVE ingest_children(_, _, _)
\* An ingest_object that hangs the sub-collections on the first node of the
\* run.
ingest_object_at_first(nodes, parsed, parent) ==
  LET r == ingest_nodes(nodes, parsed.nodes, parent, None)
  IN [nodes |-> ingest_children(r.nodes, parsed.children,
                                IF r.first_id = None THEN parent
                                ELSE r.first_id),
      first_id |-> r.first_id]

\* GameTree::ingest_object: the arena after the insertion and the id of
\* the first node created (None when the object has no nodes).
ingest_object(nodes, parsed, parent) ==
  LET r == ingest_nodes(nodes, parsed.nodes, parent, None)
  IN [nodes |-> ingest_children(r.nodes, parsed.children, r.last_id),
      first_id |-> r.first_id]

ingest_children(nodes, children, last_id) ==
  IF children = << >> THEN nodes
  ELSE ingest_children(ingest_object(nodes, Head(children), last_id).nodes,
                       Tail(children), last_id)

RECURSIVE ingest_from(_, _)
ingest_from(tree, parsed_objects) ==
  IF parsed_objects = << >> THEN tree
  ELSE LET r == ingest_object(tree.nodes, Head(parsed_objects), None)
       IN ingest_from(GameTree(r.nodes,
                               IF r.first_id # None
                               THEN Append(tree.roots, r.first_id)
                               ELSE tree.roots),
                      Tail(parsed_objects))

\* GameTree::ingest
ingest(parsed_objects) == ingest_from(GameTree(<< >>, << >>), parsed_objects)

\* parse_sgf after SGFParser::file: its error is returned, its objects
\* are ingested.
parse_sgf_objects(objects) ==
  IF ~objects.ok THEN Err ELSE Ok(ingest(objects.val))

\* parse_sgf after SGFParser::parse(Rule::file, input): its error is
\* returned, its pairs go to SGFParser::file.
parse_sgf_pairs(pairs) ==
  IF ~pairs.ok THEN Err ELSE parse_sgf_objects(SGFParser_file(pairs.val))

\* parse_sgf: Ok(tree) or Err.
parse_sgf(input) == parse_sgf_pairs(ParseFile(input))

\* ------------------------------------------------------------------------
\* Serializer (sgf/serializer.rs)
\* ------------------------------------------------------------------------

RECURSIVE write_properties(_)
write_properties(props) ==
  IF props = << >> THEN << >>
  ELSE SGFProperty_Display(Head(props)) \o write_properties(Tail(props))

RECURSIVE write_node(_, _)
RECURSIVE write_variations(_, _)
\* A write_node that wraps an only child in parentheses as well.
write_node_wrapping(tree, id) ==
  LET children == node(tree, id).children
  IN << ";" >> \o write_properties(node(tree, id).properties)
       \o (IF Len(children) = 0 THEN << >>
           ELSE write_variations(tree, children))

write_node(tree, id) ==
  LET children == node(tree, id).children
  IN << ";" >> \o write_properties(node(tree, id).properties)
       \o (IF Len(children) = 0 THEN << >>
           ELSE IF Len(children) = 1 THEN write_node(tree, children[1])
           ELSE write_variations(tree, children))

\* The 2+ children arm of write_node: each child in its own parentheses.
write_variations(tree, children) ==
  IF children = << >> THEN << >>
  ELSE << "(" >> \o write_node(tree, Head(children)) \o << ")" >>
         \o write_variations(tree, Tail(children))

write_game(tree, root) == << "(" >> \o write_node(tree, root) \o << ")" >>

RECURSIVE write_roots(_, _)
write_roots(tree, roots) ==
  IF roots = << >> THEN << >>
  ELSE write_game(tree, Head(roots)) \o write_roots(tree, Tail(roots))

write_sgf(tree) == write_roots(tree, tree.roots)

\* ------------------------------------------------------------------------
\* GameTree operations and iterators (sgf/tree.rs)
\* ------------------------------------------------------------------------

\* GameTree::add_node.  The node is pushed before the parent is indexed, so
\* a parent equal to the old arena length names the new node itself and any
\* larger parent is an out-of-bounds index.
add_node(tree, parent, props) ==
  LET id == Len(tree.nodes)
      pushed == Append(tree.nodes, TreeNode(props, parent, << >>))
  IN IF parent < 0 \/ parent > id THEN [panic |-> TRUE]
     ELSE [panic |-> FALSE, id |-> id,
           tree |-> GameTree(PushChild(pushed, parent, id), tree.roots)]

\* Vec::retain(|&c| c != id)
RECURSIVE retain_ne(_, _)
retain_ne(children, id) ==
  IF children = << >> THEN << >>
  ELSE (IF Head(children) # id THEN << Head(children) >> ELSE << >>)
         \o retain_ne(Tail(children), id)

\* A remove_subtree that drops the parent's first child, whichever id is
\* asked for.
remove_subtree_head(tree, id) ==
  LET parent == node(tree, id).parent
  IN IF parent = None THEN tree
     ELSE GameTree([tree.nodes EXCEPT ![parent + 1].children = Tail(@)],
                   tree.roots)

\* A remove_subtree that also empties the node it unlinks.
remove_subtree_clearing(tree, id) ==
  LET parent == node(tree, id).parent
  IN IF parent = None THEN tree
     ELSE GameTree([tree.nodes EXCEPT ![parent + 1].children = retain_ne(@, id),
                                      ![id + 1].properties = << >>],
                   tree.roots)

\* GameTree::remove_subtree, for an id of the arena.
remove_subtree(tree, id) ==
  LET parent == node(tree, id).parent
  IN IF parent = None THEN tree
     ELSE GameTree([tree.nodes EXCEPT ![parent + 1].children = retain_ne(@, id)],
                   tree.roots)

\* An iterator over a forest yields at most one item per node of the arena;
\* the iterators below stop after one item more, so a longer result stands
\* for an iteration that does not end.
IterFuel(tree) == Len(tree.nodes) + 1

\* MainlineIter::next, repeated: the ids yielded from current on.
RECURSIVE MainlineIter(_, _, _)
MainlineIter(tree, current, fuel) ==
  IF current = None \/ fuel = 0 THEN << >>
  ELSE LET children == node(tree, current).children
       IN << current >>
            \o MainlineIter(tree,
                            IF children = << >> THEN None ELSE children[1],
                            fuel - 1)

iter_mainline(tree, start) == MainlineIter(tree, start, IterFuel(tree))

Reverse(s) == [i \in 1..Len(s) |-> s[Len(s) + 1 - i]]

\* SubtreeIter::next, repeated: pop the last id of the stack, push its
\* children in reverse.
RECURSIVE SubtreeIter(_, _, _)
SubtreeIter(tree, stack, fuel) ==
  IF stack = << >> \/ fuel = 0 THEN << >>
  ELSE LET id == stack[Len(stack)]
           rest == SubSeq(stack, 1, Len(stack) - 1)
       IN << id >>
            \o SubtreeIter(tree, rest \o Reverse(node(tree, id).children),
                           fuel - 1)

iter_subtree(tree, start) == SubtreeIter(tree, << start >>, IterFuel(tree))

\* ------------------------------------------------------------------------
\* Board (sgf/board.rs)
\* ------------------------------------------------------------------------

\* The side of the cells array and the value of Board::size.
Size == 19

\* Option<(usize, usize)>::None of ko_point.
NoKo == << >>

opposite(cell) ==
  CASE cell = "Black" -> "White"
    [] cell = "White" -> "Black"
    [] OTHER -> "Empty"

EmptyBoard ==
  [cells |-> [r \in 0..(Size - 1) |-> [c \in 0..(Size - 1) |-> "Empty"]],
   move_number |-> 0,
   size |-> Size,
   captured_white |-> 0,
   captured_black |-> 0,
   ko_point |-> NoKo]

orthogonal_neighbors(row, col, size) ==
  (IF row > 0 THEN << << row - 1, col >> >> ELSE << >>)
    \o (IF row + 1 < size THEN << << row + 1, col >> >> ELSE << >>)
    \o (IF col > 0 THEN << << row, col - 1 >> >> ELSE << >>)
    \o (IF col + 1 < size THEN << << row, col + 1 >> >> ELSE << >>)

NeighborSet(row, col, size) ==
  LET ns == orthogonal_neighbors(row, col, size)
  IN {ns[i] : i \in 1..Len(ns)}

\* The flood fill of find_group: the cells of the colour of the start cell
\* connected to it.  The order of the Vec is observed only for a group of
\* one stone, so the group is kept as a set.
RECURSIVE flood(_, _, _, _, _)
flood(cells, color, size, frontier, group) ==
  IF frontier = {} THEN group
  ELSE LET next == {q \in UNION {NeighborSet(p[1], p[2], size) : p \in frontier} :
                      cells[q[1]][q[2]] = color /\ q \notin group}
       IN flood(cells, color, size, next, group \cup next)

find_group(cells, row, col, size) ==
  flood(cells, cells[row][col], size, {<< row, col >>}, {<< row, col >>})

\* A liberty count that looks at one stone of the group only.
count_liberties_of_one(cells, group, size) ==
  LET p == CHOOSE q \in group : TRUE
  IN Cardinality({q \in NeighborSet(p[1], p[2], size) :
                    cells[q[1]][q[2]] = "Empty"})

count_liberties(cells, group, size) ==
  Cardinality({q \in UNION {NeighborSet(p[1], p[2], size) : p \in group} :
                 cells[q[1]][q[2]] = "Empty"})

SetCell(cells, row, col, v) == [cells EXCEPT ![row][col] = v]

RECURSIVE ClearCells(_, _)
ClearCells(cells, group) ==
  IF group = {} THEN cells
  ELSE LET p == CHOOSE q \in group : TRUE
       IN ClearCells(SetCell(cells, p[1], p[2], "Empty"), group \ {p})

\* The loop of apply_captures over the neighbours of the placed stone; st
\* carries the board, total_captured and last_captured_at.
RECURSIVE capture_loop(_, _, _)
capture_loop(st, nbrs, opponent) ==
  IF nbrs = << >> THEN st
  ELSE LET nr == Head(nbrs)[1]
           nc == Head(nbrs)[2]
           b == st.board
           group == find_group(b.cells, nr, nc, b.size)
           n == Cardinality(group)
       IN IF b.cells[nr][nc] # opponent
          THEN capture_loop(st, Tail(nbrs), opponent)
          ELSE IF count_liberties(b.cells, group, b.size) > 0
          THEN capture_loop(st, Tail(nbrs), opponent)
          ELSE capture_loop(
                 [board |->
                    [b EXCEPT
                       !.cells = ClearCells(b.cells, group),
                       !.captured_white =
                          IF opponent = "Black" THEN (@ + n) % 65536 ELSE @,
                       !.captured_black =
                          IF opponent = "White" THEN (@ + n) % 65536 ELSE @],
                  total_captured |-> st.total_captured + n,
                  last_captured_at |->
                    IF n = 1 THEN CHOOSE q \in group : TRUE
                    ELSE st.last_captured_at],
                 Tail(nbrs), opponent)

\* A ko test that accepts a capture of any number of stones.
simple_ko_any_capture(total_captured, liberties, last_captured_at) ==
  IF total_captured >= 1 THEN last_captured_at ELSE NoKo

\* A ko test that does not look at the liberties of the placed group.
simple_ko_any_liberties(total_captured, liberties, last_captured_at) ==
  IF total_captured = 1 THEN last_captured_at ELSE NoKo

\* The simple ko test that ends apply_captures.
simple_ko(total_captured, liberties, last_captured_at) ==
  IF total_captured = 1 /\ liberties = 1 THEN last_captured_at ELSE NoKo

\* Board::apply_captures: the board after the removals, with the returned
\* ko point stored in it as from_tree does.
apply_captures(board, placed_row, placed_col, color) ==
  LET st == capture_loop([board |-> board, total_captured |-> 0,
                          last_captured_at |-> << 0, 0 >>],
                         orthogonal_neighbors(placed_row, placed_col, board.size),
                         opposite(color))
      b == st.board
      placed_group == find_group(b.cells, placed_row, placed_col, b.size)
  IN [b EXCEPT !.ko_point =
        simple_ko(st.total_captured,
                  IF st.total_captured = 1
                  THEN count_liberties(b.cells, placed_group, b.size)
                  ELSE 0,
                  st.last_captured_at)]

\* A replay either has a board or has panicked on an index out of bounds.
Panicked == [status |-> "panic"]

Replayed(board) == [status |-> "ok", board |-> board]

\* A replay that leaves an occupied point as it is.
replay_move_if_empty(board, coord, color) ==
  LET row == secondField(coord)
      col == firstField(coord)
  IN IF row >= Size \/ col >= Size THEN Panicked
     ELSE IF board.cells[row][col] # "Empty"
       THEN Replayed([board EXCEPT !.move_number = @ + 1])
     ELSE Replayed(apply_captures(
            [board EXCEPT !.cells = SetCell(@, row, col, color),
                          !.move_number = @ + 1],
            row, col, color))

\* The B and W arms of from_tree.
replay_move(board, coord, color) ==
  LET row == secondField(coord)
      col == firstField(coord)
  IN IF row >= Size \/ col >= Size THEN Panicked
     ELSE Replayed(apply_captures(
            [board EXCEPT !.cells = SetCell(@, row, col, color),
                          !.move_number = @ + 1],
            row, col, color))

\* A setup replay that leaves the ko point as it was.
RECURSIVE replay_setup_keeping_ko(_, _, _)
replay_setup_keeping_ko(board, coords, color) ==
  IF coords = << >> THEN Replayed(board)
  ELSE LET row == secondField(Head(coords))
           col == firstField(Head(coords))
       IN IF row >= Size \/ col >= Size THEN Panicked
          ELSE replay_setup_keeping_ko(
                 [board EXCEPT !.cells = SetCell(@, row, col, color)],
                 Tail(coords), color)

\* The AB and AW arms of from_tree.
RECURSIVE replay_setup(_, _, _)
replay_setup(board, coords, color) ==
  IF coords = << >> THEN Replayed([board EXCEPT !.ko_point = NoKo])
  ELSE LET row == secondField(Head(coords))
           col == firstField(Head(coords))
       IN IF row >= Size \/ col >= Size THEN Panicked
          ELSE replay_setup([board EXCEPT !.cells = SetCell(@, row, col, color)],
                            Tail(coords), color)

\* One iteration of the property loop of from_tree.
replay_property(board, prop) ==
  CASE prop.tag = "B" -> replay_move(board, prop.n, "Black")
    [] prop.tag = "W" -> replay_move(board, prop.n, "White")
    [] prop.tag = "AB" -> replay_setup(board, prop.cs, "Black")
    [] prop.tag = "AW" -> replay_setup(board, prop.cs, "White")
    [] OTHER -> Replayed(board)

RECURSIVE replay_properties(_, _)
replay_properties(r, props) ==
  IF props = << >> \/ r.status # "ok" THEN r
  ELSE replay_properties(replay_property(r.board, Head(props)), Tail(props))

\* The first loop of from_tree: the ids from cursor up to its root.  It
\* indexes the arena at every id it meets and does not end on a cycle of
\* parent links.
RECURSIVE path_up(_, _, _)
path_up(tree, current, fuel) ==
  IF ~InArena(tree, current) THEN [status |-> "panic"]
  ELSE IF fuel = 0 THEN [status |-> "hang"]
  ELSE IF node(tree, current).parent = None
       THEN [status |-> "ok", path |-> << current >>]
  ELSE LET up == path_up(tree, node(tree, current).parent, fuel - 1)
       IN IF up.status # "ok" THEN up
          ELSE [status |-> "ok", path |-> << current >> \o up.path]

RECURSIVE PathProperties(_, _)
PathProperties(tree, path) ==
  IF path = << >> THEN << >>
  ELSE node(tree, Head(path)).properties \o PathProperties(tree, Tail(path))

\* from_tree replaying the nodes the depth-first traversal from the root
\* yields up to the cursor, instead of the nodes of the parent path.
from_tree_file_order(tree, cursor) ==
  LET up == path_up(tree, cursor, Len(tree.nodes))
      order == iter_subtree(tree, up.path[Len(up.path)])
      upto == CHOOSE i \in 1..Len(order) : order[i] = cursor
  IN IF up.status # "ok" THEN [status |-> up.status]
     ELSE IF cursor \notin {order[i] : i \in 1..Len(order)}
     THEN replay_properties(Replayed(EmptyBoard),
                            PathProperties(tree, Reverse(up.path)))
     ELSE replay_properties(Replayed(EmptyBoard),
                            PathProperties(tree, SubSeq(order, 1, upto)))

\* Board::from_tree
from_tree(tree, cursor) ==
  LET up == path_up(tree, cursor, Len(tree.nodes))
  IN IF up.status # "ok" THEN [status |-> up.status]
     ELSE replay_properties(Replayed(EmptyBoard),
                            PathProperties(tree, Reverse(up.path)))

\* ------------------------------------------------------------------------
\* Editor (editor/mod.rs)
\* ------------------------------------------------------------------------

property_key(p) == IF p.tag = "Unknown" THEN p.s ELSE TagIdent[p.tag]

Editor(tree, cursor) == [panic |-> FALSE, tree |-> tree, cursor |-> cursor]

\* A command that indexes the arena out of bounds aborts the program.
EditorPanic == [panic |-> TRUE]

\* tree.roots.first().copied().unwrap_or(0)
FirstRootOrZero(tree) == IF tree.roots = << >> THEN 0 ELSE tree.roots[1]

Editor_new(tree) == Editor(tree, FirstRootOrZero(tree))

apply_AddMove(ed, prop) ==
  LET r == add_node(ed.tree, ed.cursor, << prop >>)
  IN IF r.panic THEN EditorPanic ELSE Editor(r.tree, r.id)

\* A find that returns the last property with the key.
FindKey_last(props, key) ==
  LET hits == {i \in 1..Len(props) : property_key(props[i]) = key}
  IN IF hits = {} THEN 0 ELSE CHOOSE i \in hits : \A j \in hits : i >= j

\* Index of the first property with the key, 0 when there is none.
FindKey(props, key) ==
  LET hits == {i \in 1..Len(props) : property_key(props[i]) = key}
  IN IF hits = {} THEN 0 ELSE CHOOSE i \in hits : \A j \in hits : i <= j

apply_SetProperty(ed, prop) ==
  LET props == node(ed.tree, ed.cursor).properties
      i == FindKey(props, property_key(prop))
      new == IF i # 0 THEN [props EXCEPT ![i] = prop] ELSE Append(props, prop)
  IN IF ~InArena(ed.tree, ed.cursor) THEN EditorPanic
     ELSE Editor([ed.tree EXCEPT !.nodes[ed.cursor + 1].properties = new],
                 ed.cursor)

\* A retain that drops only the first property with the key.
RECURSIVE retain_key_ne_first(_, _)
retain_key_ne_first(props, key) ==
  IF props = << >> THEN << >>
  ELSE IF property_key(Head(props)) = key THEN Tail(props)
  ELSE << Head(props) >> \o retain_key_ne_first(Tail(props), key)

\* Vec::retain(|p| property_key(p) != key)
RECURSIVE retain_key_ne(_, _)
retain_key_ne(props, key) ==
  IF props = << >> THEN << >>
  ELSE (IF property_key(Head(props)) # key THEN << Head(props) >> ELSE << >>)
         \o retain_key_ne(Tail(props), key)

\* A RemoveProperty that drops the properties of the key from every node.
apply_RemoveProperty_everywhere(ed, key) ==
  IF ~InArena(ed.tree, ed.cursor) THEN EditorPanic
  ELSE Editor([ed.tree EXCEPT !.nodes =
                 [i \in 1..Len(@) |->
                    [@[i] EXCEPT !.properties = retain_key_ne(@, key)]]],
              ed.cursor)

apply_RemoveProperty(ed, key) ==
  IF ~InArena(ed.tree, ed.cursor) THEN EditorPanic
  ELSE Editor([ed.tree EXCEPT !.nodes[ed.cursor + 1].properties =
                                retain_key_ne(@, key)],
              ed.cursor)

\* A DeleteCurrentNode that takes a parentless cursor node off the roots list.
apply_DeleteCurrentNode_unlisting(ed) ==
  IF ~InArena(ed.tree, ed.cursor) THEN EditorPanic
  ELSE IF node(ed.tree, ed.cursor).parent = None
    THEN Editor(GameTree(ed.tree.nodes, retain_ne(ed.tree.roots, ed.cursor)),
                ed.cursor)
  ELSE Editor(remove_subtree(ed.tree, ed.cursor),
              node(ed.tree, ed.cursor).parent)

\* A DeleteCurrentNode that leaves the cursor on the node it has removed.
apply_DeleteCurrentNode_staying(ed) ==
  IF ~InArena(ed.tree, ed.cursor) THEN EditorPanic
  ELSE IF node(ed.tree, ed.cursor).parent = None THEN ed
  ELSE Editor(remove_subtree(ed.tree, ed.cursor), ed.cursor)

apply_DeleteCurrentNode(ed) ==
  IF ~InArena(ed.tree, ed.cursor) THEN EditorPanic
  ELSE IF node(ed.tree, ed.cursor).parent = None THEN ed
  ELSE Editor(remove_subtree(ed.tree, ed.cursor),
              node(ed.tree, ed.cursor).parent)

apply_AppendVariation(ed) ==
  LET r == add_node(ed.tree, ed.cursor, << >>)
  IN IF r.panic THEN EditorPanic ELSE Editor(r.tree, ed.cursor)

apply_NavigateNext(ed) ==
  IF ~InArena(ed.tree, ed.cursor) THEN EditorPanic
  ELSE IF node(ed.tree, ed.cursor).children = << >> THEN ed
  ELSE Editor(ed.tree, node(ed.tree, ed.cursor).children[1])

\* A NavigatePrev that goes back to the first root.
apply_NavigatePrev_to_root(ed) ==
  IF ~InArena(ed.tree, ed.cursor) THEN EditorPanic
  ELSE IF node(ed.tree, ed.cursor).parent = None THEN ed
  ELSE Editor(ed.tree, FirstRootOrZero(ed.tree))

apply_NavigatePrev(ed) ==
  IF ~InArena(ed.tree, ed.cursor) THEN EditorPanic
  ELSE IF node(ed.tree, ed.cursor).parent = None THEN ed
  ELSE Editor(ed.tree, node(ed.tree, ed.cursor).parent)

\* A NavigateBranch that goes to the last child when n is out of range.
apply_NavigateBranch_clamped(ed, n) ==
  LET children == node(ed.tree, ed.cursor).children
  IN IF ~InArena(ed.tree, ed.cursor) THEN EditorPanic
     ELSE IF children = << >> THEN ed
     ELSE IF n >= Len(children) THEN Editor(ed.tree, children[Len(children)])
     ELSE Editor(ed.tree, children[n + 1])

apply_NavigateBranch(ed, n) ==
  IF ~InArena(ed.tree, ed.cursor) THEN EditorPanic
  ELSE IF n >= Len(node(ed.tree, ed.cursor).children) THEN ed
  ELSE Editor(ed.tree, node(ed.tree, ed.cursor).children[n + 1])

apply_Load(ed, new_tree) == Editor(new_tree, FirstRootOrZero(new_tree))

\* TreeCursor (editor/cursor.rs): the value returned and the position after
\* the call, or the abort of tree.node on an id outside the arena.
Moved(flag, current) == [panic |-> FALSE, moved |-> flag, current |-> current]

\* TreeCursor::advance
advance(tree, current) ==
  IF ~InArena(tree, current) THEN EditorPanic
  ELSE IF node(tree, current).children = << >> THEN Moved(FALSE, current)
  ELSE Moved(TRUE, node(tree, current).children[1])

\* TreeCursor::retreat
retreat(tree, current) ==
  IF ~InArena(tree, current) THEN EditorPanic
  ELSE IF node(tree, current).parent = None THEN Moved(FALSE, current)
  ELSE Moved(TRUE, node(tree, current).parent)

\* TreeCursor::branch
branch(tree, current, idx) ==
  IF ~InArena(tree, current) THEN EditorPanic
  ELSE IF idx >= Len(node(tree, current).children) THEN Moved(FALSE, current)
  ELSE Moved(TRUE, node(tree, current).children[idx + 1])

\* EditCommand: the variant, with its property, key, index or tree.
Cmd(tag, prop, key, n, new_tree) ==
  [tag |-> tag, prop |-> prop, key |-> key, n |-> n, new_tree |-> new_tree]

NoCmd == Cmd("None", << >>, << >>, 0, << >>)

\* Editor::apply: the match over the command.
apply(ed, cmd) ==
  CASE cmd.tag = "AddMove" -> apply_AddMove(ed, cmd.prop)
    [] cmd.tag = "SetProperty" -> apply_SetProperty(ed, cmd.prop)
    [] cmd.tag = "RemoveProperty" -> apply_RemoveProperty(ed, cmd.key)
    [] cmd.tag = "DeleteCurrentNode" -> apply_DeleteCurrentNode(ed)
    [] cmd.tag = "AppendVariation" -> apply_AppendVariation(ed)
    [] cmd.tag = "NavigateNext" -> apply_NavigateNext(ed)
    [] cmd.tag = "NavigatePrev" -> apply_NavigatePrev(ed)
    [] cmd.tag = "NavigateBranch" -> apply_NavigateBranch(ed, cmd.n)
    [] cmd.tag = "Load" -> apply_Load(ed, cmd.new_tree)

\* A run_editor that renders once and then goes from apply straight to
\* next_command.
run_editor_next_render_once(at, outcome) ==
  CASE at = "render" ->
         IF outcome = "Ok" THEN "next_command" ELSE "returned"
    [] at = "next_command" ->
         IF outcome = "Some" THEN "apply" ELSE "returned"
    [] at = "apply" -> "next_command"

\* run_editor: the point of the loop reached after the call at the point
\* `at` had the outcome given (Ok or Err for render; Some, None or Err for
\* next_command; Ok for apply).
run_editor_next(at, outcome) ==
  CASE at = "render" ->
         IF outcome = "Ok" THEN "next_command" ELSE "returned"
    [] at = "next_command" ->
         IF outcome = "Some" THEN "apply" ELSE "returned"
    [] at = "apply" -> "render"

\* run_editor: the value returned when the call at `at` ends the loop.
run_editor_result(at, outcome) ==
  IF outcome = "Err" THEN "Err"
  ELSE IF at = "next_command" /\ outcome = "None" THEN "Ok"
  ELSE "None"

\* new_game_tree (gui/mod.rs): GameTree::new with GM[1]FF[4]SZ[19]KM[6.5].
new_game_tree ==
  GameTree(<< TreeNode(<< PropNum("GM", 1), PropNum("FF", 4),
                          PropNum("SZ", 19), PropNum("KM", 13) >>,
                       None, << >>) >>,
           << 0 >>)

\* ------------------------------------------------------------------------
\* GuiApp (gui/mod.rs, gui/board.rs, gui/io.rs)
\* ------------------------------------------------------------------------

\* Option::None and Option::Some of file_path and hover_coord.
Nothing == << >>

Some(v) == << v >>

\* The fields of GuiApp.  status_message is "None" or the StatusKind of the
\* message shown.
GuiApp(editor, file_path, cached_board, active_game_index, status_message, hover_coord) ==
  [editor |-> editor, file_path |-> file_path, cached_board |-> cached_board,
   active_game_index |-> active_game_index,
   status_message |-> status_message, hover_coord |-> hover_coord]

\* Message: the variant with its payload (ok tells Ok from Err for
\* FileOpened and FileSaved; n is the index of NavigateBranch and
\* SelectGame; col and row are None for BoardHovered outside the board;
\* path is "" in the variants that carry none).
Message(tag, ok, path, text, col, row, n) ==
  [tag |-> tag, ok |-> ok, path |-> path, text |-> text, col |-> col,
   row |-> row, n |-> n]

\* Task<Message>: Task::none() or one of the three tasks of gui/io.rs.
Task(kind, path, content) == [kind |-> kind, path |-> path, content |-> content]

Task_none == Task("none", "", << >>)

open_file_task == Task("open", "", << >>)

save_file_task(path, content) == Task("save", path, content)

save_as_file_task(content) == Task("save_as", "", content)

\* update ends by returning a task, or aborts on an index out of bounds.
GuiAbort == [panic |-> TRUE]

Updated(app, task) == [panic |-> FALSE, app |-> app, task |-> task]

current_player(board) ==
  IF board.move_number % 2 = 0 THEN "Black" ELSE "White"

find_group_in(cells, row, col, size) ==
  flood(cells, cells[row][col], size, {<< row, col >>}, {<< row, col >>})

count_liberties_in(cells, group, size) ==
  Cardinality({q \in UNION {NeighborSet(p[1], p[2], size) : p \in group} :
                 cells[q[1]][q[2]] = "Empty"})

\* The loop of would_be_suicide over the neighbours of the placed stone.
RECURSIVE sim_captures(_, _, _, _)
sim_captures(sim_cells, nbrs, opponent, size) ==
  IF nbrs = << >> THEN sim_cells
  ELSE LET nr == Head(nbrs)[1]
           nc == Head(nbrs)[2]
           group == find_group_in(sim_cells, nr, nc, size)
       IN IF sim_cells[nr][nc] # opponent
          THEN sim_captures(sim_cells, Tail(nbrs), opponent, size)
          ELSE IF count_liberties_in(sim_cells, group, size) = 0
          THEN sim_captures(ClearCells(sim_cells, group), Tail(nbrs),
                            opponent, size)
          ELSE sim_captures(sim_cells, Tail(nbrs), opponent, size)

\* A suicide test that does not remove the captured stones first.
would_be_suicide_before_captures(board, col, row, color) ==
  LET placed == SetCell(board.cells, row, col, color)
  IN count_liberties_in(placed, find_group_in(placed, row, col, board.size),
                        board.size) = 0

\* would_be_suicide after its captures: the group of the placed stone
\* has no liberty on the simulated board.
no_liberty_in(sim_cells, row, col, size) ==
  count_liberties_in(sim_cells, find_group_in(sim_cells, row, col, size),
                     size) = 0

would_be_suicide(board, col, row, color) ==
  IF color = "Empty" THEN FALSE
  ELSE no_liberty_in(
         sim_captures(SetCell(board.cells, row, col, color),
                      orthogonal_neighbors(row, col, board.size),
                      opposite(color), board.size),
         row, col, board.size)

\* Result<EditCommand, String>::Err of try_place_stone.
Refused(msg) == [ok |-> FALSE, msg |-> msg]

try_place_stone(app, col, row) ==
  LET board == app.cached_board
      color == current_player(board)
      coord == from_colrow(col, row)
  IN IF col >= board.size \/ row >= board.size THEN Refused("off the board")
     ELSE IF board.cells[row][col] # "Empty"
       THEN Refused("Intersection is occupied")
     ELSE IF board.ko_point = << row, col >> THEN Refused("Illegal move: ko")
     ELSE IF would_be_suicide(board, col, row, color)
       THEN Refused("Illegal move: suicide")
     ELSE Ok(Cmd("AddMove",
                 IF color = "Black" THEN PropB(coord) ELSE PropW(coord),
                 << >>, 0, << >>))

\* self.cached_board = Board::from_tree(&self.editor.tree, self.editor.cursor)
cached(app, replayed) ==
  IF replayed.status # "ok" THEN GuiAbort
  ELSE Updated([app EXCEPT !.cached_board = replayed.board], Task_none)

refresh_board(app) ==
  cached(app, from_tree(app.editor.tree, app.editor.cursor))

\* self.editor.apply(cmd) followed by the recomputation of cached_board.
refresh_applied(app, applied) ==
  IF applied.panic THEN GuiAbort
  ELSE refresh_board([app EXCEPT !.editor = applied])

apply_and_refresh(app, cmd) == refresh_applied(app, apply(app.editor, cmd))

\* A FileOpened arm that stores the path before it parses the text.
update_FileOpened_path_first(app, path, text) ==
  LET parsed_text == parse_sgf(text)
      n_games == Len(parsed_text.val.roots)
      loaded == apply_and_refresh([app EXCEPT !.file_path = Some(path)],
                                  Cmd("Load", << >>, << >>, 0, parsed_text.val))
  IN IF ~parsed_text.ok
     THEN Updated([app EXCEPT !.file_path = Some(path),
                              !.status_message = "Error"], Task_none)
     ELSE IF loaded.panic THEN GuiAbort
     ELSE IF n_games > 1
       THEN Updated([loaded.app EXCEPT !.status_message = "Warning"], Task_none)
     ELSE loaded

\* The arm of FileOpened(Ok((path, text))) after match parse_sgf(&text):
\* Ok(tree) with the app loaded (Load applied, path stored, board
\* refreshed), or Err(e).
FileOpened_parsed(app, parsed_text, loaded) ==
  IF ~parsed_text.ok
  THEN Updated([app EXCEPT !.status_message = "Error"], Task_none)
  ELSE IF loaded.panic THEN GuiAbort
  ELSE IF Len(parsed_text.val.roots) > 1
    THEN Updated([loaded.app EXCEPT !.status_message = "Warning"], Task_none)
  ELSE loaded

FileOpened_load(app, path, parsed_text) ==
  FileOpened_parsed(app, parsed_text,
    apply_and_refresh([app EXCEPT !.file_path = Some(path)],
                      Cmd("Load", << >>, << >>, 0, parsed_text.val)))

\* The arm of FileOpened(Ok((path, text))).
update_FileOpened(app, path, text) ==
  FileOpened_load(app, path, parse_sgf(text))

\* The arm of PassRequested.
update_PassRequested(app) ==
  LET color == current_player(app.cached_board)
  IN apply_and_refresh(app,
       Cmd("AddMove", IF color = "Black" THEN PropB(pass) ELSE PropW(pass),
           << >>, 0, << >>))

\* A SelectGame that does not recompute cached_board.
update_SelectGame_keeping_board(app, n) ==
  IF n >= Len(app.editor.tree.roots) THEN Updated(app, Task_none)
  ELSE Updated([app EXCEPT
                  !.active_game_index = n,
                  !.editor = Editor(app.editor.tree,
                                    app.editor.tree.roots[n + 1])], Task_none)

\* The arm of SelectGame(n).
update_SelectGame(app, n) ==
  IF n >= Len(app.editor.tree.roots) THEN Updated(app, Task_none)
  ELSE refresh_board([app EXCEPT
                        !.active_game_index = n,
                        !.editor = Editor(app.editor.tree,
                                          app.editor.tree.roots[n + 1])])

\* The arm of BoardClicked.
BoardClicked_placed(app, placed) ==
  IF placed.ok THEN apply_and_refresh(app, placed.val)
  ELSE Updated([app EXCEPT !.status_message = "Error"], Task_none)

update_BoardClicked(app, col, row) ==
  BoardClicked_placed(app, try_place_stone(app, col, row))

\* The arm of OpenFileRequested.
update_OpenFileRequested(app) == Updated(app, open_file_task)

\* The arm of SaveFileRequested.
update_SaveFileRequested(app) ==
  IF app.file_path # Nothing
  THEN Updated(app, save_file_task(app.file_path[1],
                                   write_sgf(app.editor.tree)))
  ELSE Updated(app, save_as_file_task(write_sgf(app.editor.tree)))

\* The arm of SaveAsRequested.
update_SaveAsRequested(app) ==
  Updated(app, save_as_file_task(write_sgf(app.editor.tree)))

\* The arms of FileOpened(Err(e)) and FileSaved(Err(e)).
update_Failed(app) ==
  Updated([app EXCEPT !.status_message = "Error"], Task_none)

\* The arm of FileSaved(Ok(path)).
update_FileSaved(app, path) ==
  Updated([app EXCEPT !.file_path = Some(path), !.status_message = "Info"],
          Task_none)

\* The arm of BoardHovered: col.zip(row).
update_BoardHovered(app, col, row) ==
  Updated([app EXCEPT !.hover_coord =
             IF col = None \/ row = None THEN Nothing
             ELSE Some(<< col, row >>)], Task_none)

\* The arms of NavigateNext, NavigatePrev and NavigateBranch(n).
update_NavigateNext(app) ==
  apply_and_refresh(app, Cmd("NavigateNext", << >>, << >>, 0, << >>))

update_NavigatePrev(app) ==
  apply_and_refresh(app, Cmd("NavigatePrev", << >>, << >>, 0, << >>))

update_NavigateBranch(app, n) ==
  apply_and_refresh(app, Cmd("NavigateBranch", << >>, << >>, n, << >>))

\* The arm of NewGameRequested.
status_cleared(updated) ==
  IF updated.panic THEN GuiAbort
  ELSE Updated([updated.app EXCEPT !.status_message = "None"], Task_none)

update_NewGameRequested(app) ==
  status_cleared(apply_and_refresh([app EXCEPT !.file_path = Nothing],
                                   Cmd("Load", << >>, << >>, 0, new_game_tree)))

\* The arm of DismissStatus.
update_DismissStatus(app) ==
  Updated([app EXCEPT !.status_message = "None"], Task_none)

\* GuiApp::update: the app after the message and the task returned.
update(app, message) ==
  CASE message.tag = "OpenFileRequested" -> update_OpenFileRequested(app)
    [] message.tag = "SaveFileRequested" -> update_SaveFileRequested(app)
    [] message.tag = "SaveAsRequested" -> update_SaveAsRequested(app)
    [] message.tag = "FileOpened" ->
         IF message.ok THEN update_FileOpened(app, message.path, message.text)
         ELSE update_Failed(app)
    [] message.tag = "FileSaved" ->
         IF message.ok THEN update_FileSaved(app, message.path)
         ELSE update_Failed(app)
    [] message.tag = "BoardClicked" ->
         update_BoardClicked(app, message.col, message.row)
    [] message.tag = "BoardHovered" ->
         update_BoardHovered(app, message.col, message.row)
    [] message.tag = "PassRequested" -> update_PassRequested(app)
    [] message.tag = "NavigateNext" -> update_NavigateNext(app)
    [] message.tag = "NavigatePrev" -> update_NavigatePrev(app)
    [] message.tag = "NavigateBranch" -> update_NavigateBranch(app, message.n)
    [] message.tag = "NewGameRequested" -> update_NewGameRequested(app)
    [] message.tag = "SelectGame" -> update_SelectGame(app, message.n)
    [] message.tag = "DismissStatus" -> update_DismissStatus(app)

\* GuiApp::new
GuiApp_new ==
  GuiApp(Editor_new(new_game_tree), Nothing,
         from_tree(new_game_tree, Editor_new(new_game_tree).cursor).board,
         0, "None", Nothing)

\* ------------------------------------------------------------------------
\* CliAdapter (cli/mod.rs)
\* ------------------------------------------------------------------------

CliAdapter(file_path, last_sgf, last_tree_display, last_node_display) ==
  [file_path |-> file_path, last_sgf |-> last_sgf,
   last_tree_display |-> last_tree_display,
   last_node_display |-> last_node_display]

CliAdapter_new(file_path) == CliAdapter(file_path, << >>, << >>, << >>)

\* "  ".repeat(depth)
RECURSIVE Indent(_)
Indent(depth) == IF depth = 0 THEN << >> ELSE << " ", " " >> \o Indent(depth - 1)

\* The Display texts of the properties, joined by one space.
RECURSIVE Label(_)
Label(props) ==
  IF props = << >> THEN << >>
  ELSE IF Len(props) = 1 THEN SGFProperty_Display(props[1])
  ELSE SGFProperty_Display(props[1]) \o << " " >> \o Label(Tail(props))

\* render_node: the line of the node, then the lines of its children one
\* level deeper (render_children is its loop over node.children).
RECURSIVE render_node(_, _, _, _)
RECURSIVE render_children(_, _, _, _)
render_node(tree, id, depth, cursor) ==
  Indent(depth)
    \o (IF id = cursor THEN << "*", " " >> ELSE << " ", " " >>)
    \o << "[" >> \o NatToText(id) \o << "]", " " >>
    \o Label(node(tree, id).properties) \o << "\n" >>
    \o render_children(tree, node(tree, id).children, depth + 1, cursor)

render_children(tree, children, depth, cursor) ==
  IF children = << >> THEN << >>
  ELSE render_node(tree, Head(children), depth, cursor)
         \o render_children(tree, Tail(children), depth, cursor)

render_tree(tree, cursor) ==
  IF tree.roots = << >> THEN << >>
  ELSE render_node(tree, tree.roots[1], 0, cursor)

\* The lines "  {prop}\n" of the node display.
RECURSIVE PropertyLines(_)
PropertyLines(props) ==
  IF props = << >> THEN << >>
  ELSE << " ", " " >> \o SGFProperty_Display(Head(props)) \o << "\n" >>
         \o PropertyLines(Tail(props))

\* render aborts when editor.cursor is no id of the arena.
CliAbort == [panic |-> TRUE]

Rendered(adapter) == [panic |-> FALSE, adapter |-> adapter]

\* A render that leaves last_sgf as it was.
CliAdapter_render_keeping_sgf(adapter, editor) ==
  IF ~InArena(editor.tree, editor.cursor) THEN CliAbort
  ELSE Rendered(CliAdapter(
         adapter.file_path,
         adapter.last_sgf,
         render_tree(editor.tree, editor.cursor),
         << "-", "-", "-", " ", "n", "o", "d", "e", " " >>
           \o NatToText(editor.cursor) \o << " ", "-", "-", "-", "\n" >>
           \o PropertyLines(node(editor.tree, editor.cursor).properties)))

\* CliAdapter::render
CliAdapter_render(adapter, editor) ==
  IF ~InArena(editor.tree, editor.cursor) THEN CliAbort
  ELSE Rendered(CliAdapter(
         adapter.file_path,
         write_sgf(editor.tree),
         render_tree(editor.tree, editor.cursor),
         << "-", "-", "-", " ", "n", "o", "d", "e", " " >>
           \o NatToText(editor.cursor) \o << " ", "-", "-", "-", "\n" >>
           \o PropertyLines(node(editor.tree, editor.cursor).properties)))

\* One line read at the prompt: the subcommand clap matched ("EOF" for the
\* end of input, "" for a blank line, "error" for a line clap rejects), its
\* PATH ("" when omitted) or N, and what the file system answers: whether
\* the read or write succeeds and the text read.
Line(verb, path, n, io_ok, text) ==
  [verb |-> verb, path |-> path, n |-> n, io_ok |-> io_ok, text |-> text]

\* std::fs::write(&path, &self.last_sgf): no write, or the path and text.
NoSave == [path |-> "", text |-> << >>, done |-> FALSE]

Save(path, text) == [path |-> path, text |-> text, done |-> TRUE]

\* The effect of one line on next_command: it continues its loop, or
\* returns Some(cmd), None or an error; write is the file written.
LineRead(adapter, outcome, cmd, write) ==
  [adapter |-> adapter, outcome |-> outcome, cmd |-> cmd, write |-> write]

\* next_command, load arm after a successful read: parsed_text is
\* parse_sgf(&text); an error returns, a tree sets file_path and is loaded.
next_command_load(adapter, line, parsed_text) ==
  IF ~parsed_text.ok THEN LineRead(adapter, "Err", NoCmd, NoSave)
  ELSE LineRead([adapter EXCEPT !.file_path = Some(line.path)], "Some",
                Cmd("Load", << >>, << >>, 0, parsed_text.val), NoSave)

\* next_command, load arm: read_to_string(&path)?, then parse_sgf(&text)?.
next_command_read(adapter, line) ==
  IF ~line.io_ok THEN LineRead(adapter, "Err", NoCmd, NoSave)
  ELSE next_command_load(adapter, line, parse_sgf(line.text))

\* next_command, every arm but load.
next_command_arms(adapter, line) ==
  CASE line.verb = "EOF" -> LineRead(adapter, "None", NoCmd, NoSave)
    [] line.verb \in {"", "error", "show", "tree", "completions"} ->
         LineRead(adapter, "continue", NoCmd, NoSave)
    [] line.verb = "next" ->
         LineRead(adapter, "Some",
                  Cmd("NavigateNext", << >>, << >>, 0, << >>), NoSave)
    [] line.verb = "prev" ->
         LineRead(adapter, "Some",
                  Cmd("NavigatePrev", << >>, << >>, 0, << >>), NoSave)
    [] line.verb = "branch" ->
         LineRead(adapter, "Some",
                  Cmd("NavigateBranch", << >>, << >>, line.n, << >>), NoSave)
    [] line.verb = "save" ->
         LET path == IF line.path # "" THEN Some(line.path)
                     ELSE adapter.file_path
         IN IF path = Nothing THEN LineRead(adapter, "continue", NoCmd, NoSave)
            ELSE IF ~line.io_ok THEN LineRead(adapter, "Err", NoCmd, NoSave)
            ELSE LineRead(adapter, "continue", NoCmd,
                          Save(path[1], adapter.last_sgf))
    [] line.verb = "delete" ->
         LineRead(adapter, "Some",
                  Cmd("DeleteCurrentNode", << >>, << >>, 0, << >>), NoSave)
    [] line.verb = "variation" ->
         LineRead(adapter, "Some",
                  Cmd("AppendVariation", << >>, << >>, 0, << >>), NoSave)
    [] line.verb = "quit" -> LineRead(adapter, "None", NoCmd, NoSave)

\* CliAdapter::next_command: one iteration of its loop.
next_command_line(adapter, line) ==
  IF line.verb = "load" THEN next_command_read(adapter, line)
  ELSE next_command_arms(adapter, line)

\* ------------------------------------------------------------------------
\* Inputs of the specifications
\* ------------------------------------------------------------------------

LP == << "(" >>

RP == << ")" >>

SC == << ";" >>

L_Baa == << "B", "[", "a", "a", "]" >>

L_Wab == << "W", "[", "a", "b", "]" >>

L_Wba == << "W", "[", "b", "a", "]" >>

L_ABaa == << "A", "B", "[", "a", "a", "]" >>

L_ABzz == << "A", "B", "[", "z", "z", "]" >>

L_KMneg == << "K", "M", "[", "-", "0", ".", "5", "]" >>

L_KM65 == << "K", "M", "[", "6", ".", "5", "]" >>

L_XY == << "X", "Y", "[", "q", "]", "[", "]" >>

\* The empty file.
T_empty == << >>

\* (;B[aa](;W[ab])(;W[ba])): one game with two variations.
T_variations == Cat(<< LP, SC, L_Baa, LP, SC, L_Wab, RP, LP, SC, L_Wba, RP, RP >>)

\* (;AB[aa];W[ba])(;KM[6.5]): two games in one file.
T_two_games == Cat(<< LP, SC, L_ABaa, SC, L_Wba, RP, LP, SC, L_KM65, RP >>)

\* (;AB[aa]KM[6.5]AB[zz]): a node with the same property twice.
T_repeated == Cat(<< LP, SC, L_ABaa, L_KM65, L_ABzz, RP >>)

SampleTexts == {T_empty, T_variations, T_two_games, T_repeated}

\* The trees the editor is started on and loads: GameTree::new, the new
\* game of the GUI and the trees parse_sgf returns for the sample texts.
LoadTrees ==
  {GameTree_new, new_game_tree}
    \cup {r.val : r \in {x \in {parse_sgf(t) : t \in SampleTexts} : x.ok}}

\* The moves AddMove and add_node are given.
MoveProps == {PropB(from_colrow(0, 0)), PropW(from_colrow(1, 0))}

\* The properties SetProperty is given.
SetProps == {PropAB(<< from_colrow(0, 1) >>)}

RemoveKeys == {TagIdent["AB"]}

\* ------------------------------------------------------------------------
\* Specification Spec: the editor over its tree
\* ------------------------------------------------------------------------

\* The editor: Editor::tree, Editor::cursor, and whether a command aborted.
VARIABLES tree, cursor, panicked

\* The replay loop of from_tree: the board so far (or the abort), the tag
\* of the last property replayed, the ko point before it and the number of
\* B and W properties replayed.
VARIABLES board, last_tag, prev_ko, moves_replayed

\* The text pipeline: the input text, the step reached, the result of
\* parse_sgf, the text of write_sgf and the result of parsing that text.
VARIABLES input, pc, parsed, output, reparsed

\* The komi text round trip: the Komi value (half-points), the step
\* reached, the text of Display and the result of parsing that text.
VARIABLES komi, komi_pc, komi_text, komi_back

\* run_editor: the point of the loop reached, the calls made so far, the
\* command next_command returned and the value run_editor returned.
VARIABLES loop_pc, calls, pending, result

\* GuiApp: the fields beside the editor, the tasks update has returned
\* that have not ended yet, and (history) the file the current tree was
\* last loaded from or saved to.
VARIABLES file_path, cached_board, active_game_index, status_message,
          hover_coord, tasks, origin

\* CliAdapter: its fields, and the last write of a save command.
VARIABLES cli_file_path, last_sgf, last_tree_display, last_node_display,
          written

editorVars == << tree, cursor, panicked >>

komiVars == << komi, komi_pc, komi_text, komi_back >>

loopVars == << loop_pc, calls, pending, result >>

guiVars == << file_path, cached_board, active_game_index, status_message,
              hover_coord, tasks, origin >>

cliVars == << cli_file_path, last_sgf, last_tree_display, last_node_display,
              written >>

appVars == << guiVars, cliVars >>

replayVars == << board, last_tag, prev_ko, moves_replayed >>

pipeVars == << input, pc, parsed, output, reparsed >>

vars == << tree, cursor, panicked, board, last_tag, prev_ko, moves_replayed,
           input, pc, parsed, output, reparsed,
           komi, komi_pc, komi_text, komi_back,
           loop_pc, calls, pending, result,
           file_path, cached_board, active_game_index, status_message,
           hover_coord, tasks, origin,
           cli_file_path, last_sgf, last_tree_display, last_node_display,
           written >>

EditorIdle ==
  /\ tree = GameTree_new
  /\ cursor = 0
  /\ panicked = FALSE

ReplayIdle ==
  /\ board = Replayed(EmptyBoard)
  /\ last_tag = "None"
  /\ prev_ko = NoKo
  /\ moves_replayed = 0

PipeIdle ==
  /\ input = << >>
  /\ pc = "idle"
  /\ parsed = Err
  /\ output = << >>
  /\ reparsed = Err

KomiIdle ==
  /\ komi = 0
  /\ komi_pc = "idle"
  /\ komi_text = << >>
  /\ komi_back = Err

LoopIdle ==
  /\ loop_pc = "idle"
  /\ calls = << >>
  /\ pending = << >>
  /\ result = "None"

GuiIdle ==
  /\ file_path = Nothing
  /\ cached_board = EmptyBoard
  /\ active_game_index = 0
  /\ status_message = "None"
  /\ hover_coord = Nothing
  /\ tasks = {}
  /\ origin = Nothing

\* The last file a save command wrote: its path, the text written and
\* (history) the text write_sgf gave for the editor's tree at the write.
NoWrite == [path |-> "", text |-> << >>, of_tree |-> << >>]

CliIdle ==
  /\ cli_file_path = Nothing
  /\ last_sgf = << >>
  /\ last_tree_display = << >>
  /\ last_node_display = << >>
  /\ written = NoWrite

Init ==
  /\ \E t \in LoadTrees :
       /\ tree = Editor_new(t).tree
       /\ cursor = Editor_new(t).cursor
  /\ panicked = FALSE
  /\ ReplayIdle
  /\ PipeIdle
  /\ KomiIdle
  /\ LoopIdle
  /\ GuiIdle
  /\ CliIdle

ed == Editor(tree, cursor)

\* Editor::apply: the state after a command, or the abort.
Applied(r) ==
  /\ ~panicked
  /\ IF r.panic
     THEN panicked' = TRUE /\ UNCHANGED << tree, cursor >>
     ELSE tree' = r.tree /\ cursor' = r.cursor /\ panicked' = FALSE
  /\ UNCHANGED << replayVars, pipeVars, komiVars, loopVars, appVars >>

CanGrow == Len(tree.nodes) < MaxNodes

AddMove == \E p \in MoveProps : CanGrow /\ Applied(apply_AddMove(ed, p))

SetProperty == \E p \in SetProps : Applied(apply_SetProperty(ed, p))

RemoveProperty == \E k \in RemoveKeys : Applied(apply_RemoveProperty(ed, k))

DeleteCurrentNode == Applied(apply_DeleteCurrentNode(ed))

AppendVariation == CanGrow /\ Applied(apply_AppendVariation(ed))

NavigateNext == Applied(apply_NavigateNext(ed))

NavigatePrev == Applied(apply_NavigatePrev(ed))

NavigateBranch == \E n \in 0..MaxNodes : Applied(apply_NavigateBranch(ed, n))

Load == \E t \in LoadTrees : Applied(apply_Load(ed, t))

\* GameTree::add_node called on editor.tree with an id of the arena.
TreeAddNode ==
  \E parent \in 0..(Len(tree.nodes) - 1), p \in MoveProps :
    /\ ~panicked /\ CanGrow
    /\ tree' = add_node(tree, parent, << p >>).tree
    /\ UNCHANGED << cursor, panicked, replayVars, pipeVars, komiVars, loopVars, appVars >>

\* GameTree::remove_subtree called on editor.tree with an id of the arena.
TreeRemoveSubtree ==
  \E id \in 0..(Len(tree.nodes) - 1) :
    /\ ~panicked
    /\ tree' = remove_subtree(tree, id)
    /\ UNCHANGED << cursor, panicked, replayVars, pipeVars, komiVars, loopVars, appVars >>

Next ==
  \/ AddMove
  \/ SetProperty
  \/ RemoveProperty
  \/ DeleteCurrentNode
  \/ AppendVariation
  \/ NavigateNext
  \/ NavigatePrev
  \/ NavigateBranch
  \/ Load
  \/ TreeAddNode
  \/ TreeRemoveSubtree

Spec == Init /\ [][Next]_vars

\* ------------------------------------------------------------------------
\* Specification SpecReplay: the property loop of from_tree, one property
\* of the root-to-cursor path per step
\* ------------------------------------------------------------------------

\* Number of board points the replayed properties name.
NumPoints == 7

\* Number of move properties on a replayed path.
MaxMoves == 1

\* Points << row, col >> of the top left corner, in the order they are
\* added to the replayed properties.
PointOrder ==
  << << 0, 0 >>, << 0, 1 >>, << 1, 0 >>, << 1, 1 >>, << 0, 2 >>,
     << 1, 2 >>, << 2, 1 >>, << 2, 0 >>, << 2, 2 >>, << 0, 3 >> >>

Points == {PointOrder[i] : i \in 1..Min(NumPoints, Len(PointOrder))}

CoordOf(p) == from_colrow(p[2], p[1])

\* The coordinate lists of the replayed AB and AW properties: one point,
\* or two consecutive points.
SetupLists ==
  {<< CoordOf(p) >> : p \in Points}
    \cup {<< CoordOf(PointOrder[i]), CoordOf(PointOrder[i + 1]) >> :
            i \in 1..(Min(NumPoints, Len(PointOrder)) - 1)}

\* The coordinates of the replayed B and W properties: the points, and
\* the pass coordinate the GUI pass button appends.
MoveCoords == {CoordOf(p) : p \in Points} \cup {pass}

InitReplay ==
  /\ ReplayIdle
  /\ EditorIdle
  /\ PipeIdle
  /\ KomiIdle
  /\ LoopIdle
  /\ GuiIdle
  /\ CliIdle

ReplayStep(prop) ==
  /\ board.status = "ok"
  /\ board' = replay_property(board.board, prop)
  /\ last_tag' = prop.tag
  /\ prev_ko' = board.board.ko_point
  /\ moves_replayed' = moves_replayed + (IF prop.tag \in {"B", "W"} THEN 1 ELSE 0)
  /\ UNCHANGED << editorVars, pipeVars, komiVars, loopVars, appVars >>

CanMove == board.status = "ok" /\ board.board.move_number < MaxMoves

ReplayB == \E c \in MoveCoords : CanMove /\ ReplayStep(PropB(c))

ReplayW == \E c \in MoveCoords : CanMove /\ ReplayStep(PropW(c))

ReplayAB == \E cs \in SetupLists : ReplayStep(PropAB(cs))

ReplayAW == \E cs \in SetupLists : ReplayStep(PropAW(cs))

NextReplay ==
  \/ ReplayB
  \/ ReplayW
  \/ ReplayAB
  \/ ReplayAW

SpecReplay == InitReplay /\ [][NextReplay]_vars

\* ------------------------------------------------------------------------
\* Specification SpecRoundTrip: parse_sgf, write_sgf, parse_sgf again
\* ------------------------------------------------------------------------

Lexemes == {LP, RP, SC, L_Baa, L_KMneg, L_KM65, L_ABzz, L_XY}

\* (;KM[6.5]XY[q][]B[aa]): an unknown property between two known ones.
T_unknown == Cat(<< LP, SC, L_KM65, L_XY, L_Baa, RP >>)

\* ((;)(;B[aa])): a collection with sub-collections and no nodes of its own.
T_nested == Cat(<< LP, LP, SC, RP, LP, SC, L_Baa, RP, RP >>)

\* (;B[aa];(;W[ab])(;)): a run of two nodes and two sub-collections.
T_run == Cat(<< LP, SC, L_Baa, SC, LP, SC, L_Wab, RP, LP, SC, RP, RP >>)

\* (;(;(;)(;))(;)): sub-collections of a sub-collection.
T_deep ==
  Cat(<< LP, SC, LP, SC, LP, SC, RP, LP, SC, RP, RP, LP, SC, RP, RP >>)

\* The texts of at most MaxLexemes lexemes, the sample texts and four
\* longer texts.
InputTexts ==
  {Cat(ls) : ls \in UNION {[1..n -> Lexemes] : n \in 0..MaxLexemes}}
    \cup SampleTexts \cup {T_unknown, T_nested, T_run, T_deep}

InitRoundTrip ==
  /\ input \in InputTexts
  /\ pc = "input"
  /\ parsed = Err
  /\ output = << >>
  /\ reparsed = Err
  /\ EditorIdle
  /\ ReplayIdle
  /\ KomiIdle
  /\ LoopIdle
  /\ GuiIdle
  /\ CliIdle

ParseSgf ==
  /\ pc = "input"
  /\ parsed' = parse_sgf(input)
  /\ pc' = "parsed"
  /\ UNCHANGED << input, output, reparsed, editorVars, replayVars, komiVars,
                loopVars, appVars >>

WriteSgf ==
  /\ pc = "parsed"
  /\ parsed.ok
  /\ output' = write_sgf(parsed.val)
  /\ pc' = "written"
  /\ UNCHANGED << input, parsed, reparsed, editorVars, replayVars, komiVars,
                loopVars, appVars >>

Reparse ==
  /\ pc = "written"
  /\ reparsed' = parse_sgf(output)
  /\ pc' = "reparsed"
  /\ UNCHANGED << input, parsed, output, editorVars, replayVars, komiVars,
                loopVars, appVars >>

NextRoundTrip ==
  \/ ParseSgf
  \/ WriteSgf
  \/ Reparse

SpecRoundTrip == InitRoundTrip /\ [][NextRoundTrip]_vars

\* ------------------------------------------------------------------------
\* Specification SpecLoop: run_editor over an adapter
\* ------------------------------------------------------------------------

\* Number of commands the adapter returns before it quits or fails.
MaxCommands == 2

\* The commands the adapter returns.
LoopCommands ==
  {Cmd("AddMove", PropB(from_colrow(0, 0)), << >>, 0, << >>),
   Cmd("AppendVariation", << >>, << >>, 0, << >>),
   Cmd("NavigateNext", << >>, << >>, 0, << >>),
   Cmd("NavigatePrev", << >>, << >>, 0, << >>),
   Cmd("NavigateBranch", << >>, << >>, 1, << >>),
   Cmd("DeleteCurrentNode", << >>, << >>, 0, << >>)}

\* One call of the loop: the callee, its outcome, the command returned or
\* applied, and the editor the callee was given (for apply: left).
Call(callee, outcome, cmd, editor) ==
  [callee |-> callee, outcome |-> outcome, cmd |-> cmd, editor |-> editor]

\* The trees cli::run starts run_editor on: GameTree::new and a file.
LoopTrees == {GameTree_new, parse_sgf(T_variations).val}

InitLoop ==
  /\ \E t \in LoopTrees :
       /\ tree = Editor_new(t).tree
       /\ cursor = Editor_new(t).cursor
  /\ panicked = FALSE
  /\ loop_pc = "render"
  /\ calls = << >>
  /\ pending = NoCmd
  /\ result = "None"
  /\ ReplayIdle
  /\ PipeIdle
  /\ KomiIdle
  /\ GuiIdle
  /\ CliIdle

\* adapter.render(&editor)?
LoopRender ==
  \E outcome \in {"Ok", "Err"} :
    /\ loop_pc = "render"
    /\ calls' = Append(calls, Call("render", outcome, NoCmd, ed))
    /\ loop_pc' = run_editor_next("render", outcome)
    /\ result' = run_editor_result("render", outcome)
    /\ UNCHANGED << pending, editorVars, replayVars, pipeVars, komiVars, appVars >>

\* The number of commands returned so far.
Returned == Cardinality({i \in 1..Len(calls) : calls[i].outcome = "Some"})

\* adapter.next_command()?
LoopNextCommand ==
  \E outcome \in {"Some", "None", "Err"} :
    \E cmd \in IF outcome = "Some" THEN LoopCommands ELSE {NoCmd} :
      /\ loop_pc = "next_command"
      /\ outcome = "Some" => Returned < MaxCommands
      /\ calls' = Append(calls, Call("next_command", outcome, cmd, ed))
      /\ pending' = cmd
      /\ loop_pc' = run_editor_next("next_command", outcome)
      /\ result' = run_editor_result("next_command", outcome)
      /\ UNCHANGED << editorVars, replayVars, pipeVars, komiVars, appVars >>

\* editor.apply(cmd)
LoopApply ==
  /\ loop_pc = "apply"
  /\ \A r \in {apply(ed, pending)} :
       IF r.panic
       THEN /\ panicked' = TRUE
            /\ loop_pc' = "aborted"
            /\ calls' = Append(calls, Call("apply", "Abort", pending, ed))
            /\ UNCHANGED << tree, cursor >>
       ELSE /\ tree' = r.tree
            /\ cursor' = r.cursor
            /\ calls' = Append(calls, Call("apply", "Ok", pending, r))
            /\ loop_pc' = run_editor_next("apply", "Ok")
            /\ UNCHANGED panicked
  /\ pending' = NoCmd
  /\ UNCHANGED << result, replayVars, pipeVars, komiVars, appVars >>

NextLoop ==
  \/ LoopRender
  \/ LoopNextCommand
  \/ LoopApply

SpecLoop == InitLoop /\ [][NextLoop]_vars

\* ------------------------------------------------------------------------
\* Specification SpecKomi: Display for Komi, then FromStr for Komi
\* ------------------------------------------------------------------------

\* The Komi values tried are -MaxKomi..MaxKomi half-points.
MaxKomi == 40

InitKomi ==
  /\ komi \in (0 - MaxKomi)..MaxKomi
  /\ komi_pc = "stored"
  /\ komi_text = << >>
  /\ komi_back = Err
  /\ EditorIdle
  /\ ReplayIdle
  /\ PipeIdle
  /\ LoopIdle
  /\ GuiIdle
  /\ CliIdle

\* write!(f, "{}", komi)
KomiWrite ==
  /\ komi_pc = "stored"
  /\ komi_text' = Komi_Display(komi)
  /\ komi_pc' = "written"
  /\ UNCHANGED << komi, komi_back, editorVars, replayVars, pipeVars,
                  loopVars, appVars >>

\* komi_text.parse::<Komi>()
KomiRead ==
  /\ komi_pc = "written"
  /\ komi_back' = Komi_from_str(komi_text)
  /\ komi_pc' = "reread"
  /\ UNCHANGED << komi, komi_text, editorVars, replayVars, pipeVars,
                  loopVars, appVars >>

NextKomi ==
  \/ KomiWrite
  \/ KomiRead

SpecKomi == InitKomi /\ [][NextKomi]_vars

\* ------------------------------------------------------------------------
\* Specification SpecGui: GuiApp::update over the messages of the user and
\* of the tasks of gui/io.rs
\* ------------------------------------------------------------------------

\* Number of tasks that may be running at once.
MaxTasks == 1

\* The files the dialogs pick.
Paths == {"a.sgf", "b.sgf"}

\* (;AB[ab]AW[aa][ca][bb][ea][db]): Black to play captures at ba and makes a
\* ko at aa; da is a suicide for Black; aa is occupied.
T_ko ==
  << "(", ";", "A", "B", "[", "a", "b", "]", "A", "W", "[", "a", "a", "]",
     "[", "c", "a", "]", "[", "b", "b", "]", "[", "e", "a", "]",
     "[", "d", "b", "]", ")" >>

\* (;B[zz]): a move whose coordinate GoCoord::from_str rejects.
T_bad_move == << "(", ";", "B", "[", "z", "z", "]", ")" >>

\* The texts read from the files picked.
GuiTexts == {T_ko, T_two_games, T_bad_move, T_empty}

\* The points << col, row >> clicked: three of the corner and two off the
\* board.
ClickPoints == {<< 0, 0 >>, << 1, 0 >>, << 3, 0 >>, << 19, 0 >>, << 0, 19 >>}

Msg(tag) == Message(tag, TRUE, "", << >>, None, None, 0)

\* The messages a task of gui/io.rs may end with: a closed dialog gives
\* DismissStatus, a failed read or write the Err variant.
task_messages(task) ==
  CASE task.kind = "open" ->
         {Msg("DismissStatus"),
          Message("FileOpened", FALSE, "", << >>, None, None, 0)}
           \cup {Message("FileOpened", TRUE, p, t, None, None, 0) :
                   p \in Paths, t \in GuiTexts}
    [] task.kind = "save" ->
         {Message("FileSaved", TRUE, task.path, << >>, None, None, 0),
          Message("FileSaved", FALSE, "", << >>, None, None, 0)}
    [] task.kind = "save_as" ->
         {Msg("DismissStatus"),
          Message("FileSaved", FALSE, "", << >>, None, None, 0)}
           \cup {Message("FileSaved", TRUE, p, << >>, None, None, 0) :
                   p \in Paths}

app ==
  GuiApp(Editor(tree, cursor), file_path, cached_board, active_game_index,
         status_message, hover_coord)

\* A task that has not ended: its kind and its path, which decide the
\* messages it may end with (the content of a save goes to the file and
\* into no message); stale (history) tells that the tree has been replaced
\* since update returned the task.
Running(task) == [kind |-> task.kind, path |-> task.path, stale |-> FALSE]

\* The file the current tree was last loaded from or saved to, after the
\* message that ended the tasks of `ended`; replaced tells that update
\* replaced the tree by a Load on the message.
OriginAfter(message, ended, replaced) ==
  IF message.tag = "NewGameRequested" THEN Nothing
  ELSE IF replaced THEN Some(message.path)
  ELSE IF message.tag = "FileSaved" /\ message.ok
          /\ \A t \in ended : ~t.stale
    THEN Some(message.path)
  ELSE origin

InitGui ==
  /\ tree = GuiApp_new.editor.tree
  /\ cursor = GuiApp_new.editor.cursor
  /\ panicked = FALSE
  /\ file_path = GuiApp_new.file_path
  /\ cached_board = GuiApp_new.cached_board
  /\ active_game_index = GuiApp_new.active_game_index
  /\ status_message = GuiApp_new.status_message
  /\ hover_coord = GuiApp_new.hover_coord
  /\ tasks = {}
  /\ origin = Nothing
  /\ ReplayIdle
  /\ PipeIdle
  /\ KomiIdle
  /\ LoopIdle
  /\ CliIdle

\* One call of update, on a message of the user (ended = {}) or on the
\* message a running task ends with (ended = that task); updated is what
\* the arm of update for the message returns, and replaced tells that the
\* arm loads a tree into the editor (New Game, or a file that parses).
GuiStep(updated, message, ended, replaced) ==
  /\ ~panicked
  /\ \A r \in {updated} :
       IF r.panic
       THEN /\ panicked' = TRUE
            /\ UNCHANGED << tree, cursor, guiVars >>
       ELSE /\ panicked' = FALSE
            /\ tree' = r.app.editor.tree
            /\ cursor' = r.app.editor.cursor
            /\ file_path' = r.app.file_path
            /\ cached_board' = r.app.cached_board
            /\ active_game_index' = r.app.active_game_index
            /\ status_message' = r.app.status_message
            /\ hover_coord' = r.app.hover_coord
            /\ tasks' =
                 {[t EXCEPT !.stale = @ \/ replaced] :
                    t \in tasks \ ended}
                   \cup (IF r.task = Task_none THEN {} ELSE {Running(r.task)})
            /\ Cardinality(tasks') <= MaxTasks
            /\ origin' = OriginAfter(message, ended, replaced)
  /\ UNCHANGED << replayVars, pipeVars, komiVars, loopVars, cliVars >>

GuiOpenFileRequested ==
  GuiStep(update_OpenFileRequested(app), Msg("OpenFileRequested"), {}, FALSE)

GuiSaveFileRequested ==
  GuiStep(update_SaveFileRequested(app), Msg("SaveFileRequested"), {}, FALSE)

GuiSaveAsRequested ==
  GuiStep(update_SaveAsRequested(app), Msg("SaveAsRequested"), {}, FALSE)

GuiFileOpened ==
  \E t \in tasks : \E m \in task_messages(t) :
    /\ m.tag = "FileOpened"
    /\ \E parsed_text \in {IF m.ok THEN parse_sgf(m.text) ELSE Err} :
         GuiStep(IF m.ok THEN FileOpened_load(app, m.path, parsed_text)
                 ELSE update_Failed(app), m, {t}, m.ok /\ parsed_text.ok)

GuiFileSaved ==
  \E t \in tasks : \E m \in task_messages(t) :
    /\ m.tag = "FileSaved"
    /\ GuiStep(IF m.ok THEN update_FileSaved(app, m.path)
               ELSE update_Failed(app), m, {t}, FALSE)

\* A dialog was closed without a file: the task ends with DismissStatus.
GuiDialogClosed ==
  \E t \in tasks : \E m \in task_messages(t) :
    /\ m.tag = "DismissStatus"
    /\ GuiStep(update_DismissStatus(app), m, {t}, FALSE)

GuiBoardClicked ==
  \E pt \in ClickPoints :
    /\ try_place_stone(app, pt[1], pt[2]).ok => CanGrow
    /\ GuiStep(update_BoardClicked(app, pt[1], pt[2]),
               Message("BoardClicked", TRUE, "", << >>, pt[1], pt[2], 0), {}, FALSE)

GuiBoardHovered ==
  \E h \in {<< None, None >>, << 0, None >>, << 1, 0 >>} :
    GuiStep(update_BoardHovered(app, h[1], h[2]),
            Message("BoardHovered", TRUE, "", << >>, h[1], h[2], 0), {}, FALSE)

GuiPassRequested ==
  CanGrow /\ GuiStep(update_PassRequested(app), Msg("PassRequested"), {}, FALSE)

GuiNavigateNext == GuiStep(update_NavigateNext(app), Msg("NavigateNext"), {}, FALSE)

GuiNavigatePrev == GuiStep(update_NavigatePrev(app), Msg("NavigatePrev"), {}, FALSE)

GuiNavigateBranch ==
  \E n \in 0..1 :
    GuiStep(update_NavigateBranch(app, n),
            Message("NavigateBranch", TRUE, "", << >>, None, None, n), {}, FALSE)

GuiNewGameRequested ==
  GuiStep(update_NewGameRequested(app), Msg("NewGameRequested"), {}, TRUE)

GuiSelectGame ==
  \E n \in 0..2 :
    GuiStep(update_SelectGame(app, n),
            Message("SelectGame", TRUE, "", << >>, None, None, n), {}, FALSE)

GuiDismissStatus ==
  GuiStep(update_DismissStatus(app), Msg("DismissStatus"), {}, FALSE)

NextGui ==
  \/ GuiOpenFileRequested
  \/ GuiSaveFileRequested
  \/ GuiSaveAsRequested
  \/ GuiFileOpened
  \/ GuiFileSaved
  \/ GuiDialogClosed
  \/ GuiBoardClicked
  \/ GuiBoardHovered
  \/ GuiPassRequested
  \/ GuiNavigateNext
  \/ GuiNavigatePrev
  \/ GuiNavigateBranch
  \/ GuiNewGameRequested
  \/ GuiSelectGame
  \/ GuiDismissStatus

SpecGui == InitGui /\ [][NextGui]_vars

\* ------------------------------------------------------------------------
\* Specification SpecSession: an editor started on a tree with a root,
\* under the EditCommands and the SelectGame message of the GUI
\* ------------------------------------------------------------------------

\* The trees with a root the editor is started on and loads: those of
\* LoadTrees and the tree of five nodes parse_sgf returns for T_deep.
RootedTrees ==
  {t \in {GameTree_new, new_game_tree}
            \cup {r.val : r \in {x \in {parse_sgf(u) :
                                         u \in SampleTexts \cup {T_deep}} :
                                  x.ok}} :
     t.roots # << >>}

InitSession ==
  /\ \E t \in RootedTrees :
       /\ tree = Editor_new(t).tree
       /\ cursor = Editor_new(t).cursor
       /\ cached_board = from_tree(t, Editor_new(t).cursor).board
  /\ panicked = FALSE
  /\ file_path = Nothing
  /\ active_game_index = 0
  /\ status_message = "None"
  /\ hover_coord = Nothing
  /\ tasks = {}
  /\ origin = Nothing
  /\ ReplayIdle
  /\ PipeIdle
  /\ KomiIdle
  /\ LoopIdle
  /\ CliIdle

LoadRooted == \E t \in RootedTrees : Applied(apply_Load(ed, t))

NextSession ==
  \/ AddMove
  \/ SetProperty
  \/ RemoveProperty
  \/ DeleteCurrentNode
  \/ AppendVariation
  \/ NavigateNext
  \/ NavigatePrev
  \/ NavigateBranch
  \/ LoadRooted
  \/ GuiSelectGame

SpecSession == InitSession /\ [][NextSession]_vars

\* ------------------------------------------------------------------------
\* Specification SpecCli: run_editor over the CliAdapter, one line of the
\* prompt per step
\* ------------------------------------------------------------------------

\* The texts of the files the CLI is started on and loads.
CliTexts == {T_variations, T_two_games, T_bad_move, T_empty}

adapter ==
  CliAdapter(cli_file_path, last_sgf, last_tree_display, last_node_display)

\* cli::run: without a file, GameTree::new and no path; with a file that
\* is read and parsed, its tree and its path.
InitCli ==
  /\ \/ /\ tree = Editor_new(GameTree_new).tree
        /\ cursor = Editor_new(GameTree_new).cursor
        /\ cli_file_path = CliAdapter_new(Nothing).file_path
     \/ \E p \in Paths : \E t \in CliTexts : \E r \in {parse_sgf(t)} :
          /\ r.ok
          /\ tree = Editor_new(r.val).tree
          /\ cursor = Editor_new(r.val).cursor
          /\ cli_file_path = CliAdapter_new(Some(p)).file_path
  /\ last_sgf = CliAdapter_new(Nothing).last_sgf
  /\ last_tree_display = CliAdapter_new(Nothing).last_tree_display
  /\ last_node_display = CliAdapter_new(Nothing).last_node_display
  /\ written = NoWrite
  /\ panicked = FALSE
  /\ loop_pc = "render"
  /\ calls = << >>
  /\ pending = NoCmd
  /\ result = "None"
  /\ ReplayIdle
  /\ PipeIdle
  /\ KomiIdle
  /\ GuiIdle

\* adapter.render(&editor)?
CliRender ==
  /\ loop_pc = "render"
  /\ \A r \in {CliAdapter_render(adapter, ed)} :
       IF r.panic
       THEN /\ panicked' = TRUE
            /\ loop_pc' = "aborted"
            /\ UNCHANGED << cli_file_path, last_sgf, last_tree_display,
                            last_node_display >>
       ELSE /\ cli_file_path' = r.adapter.file_path
            /\ last_sgf' = r.adapter.last_sgf
            /\ last_tree_display' = r.adapter.last_tree_display
            /\ last_node_display' = r.adapter.last_node_display
            /\ loop_pc' = run_editor_next("render", "Ok")
            /\ UNCHANGED panicked
  /\ UNCHANGED << tree, cursor, written, calls, pending, result, replayVars,
                  pipeVars, komiVars, guiVars >>

\* adapter.next_command()?: one line read at the prompt, with the effect
\* read that next_command has on it.
CliLine(read) ==
  /\ loop_pc = "next_command"
  /\ \A r \in {read} :
       /\ cli_file_path' = r.adapter.file_path
       /\ written' = IF r.write.done
                     THEN [path |-> r.write.path, text |-> r.write.text,
                           of_tree |-> write_sgf(tree)]
                     ELSE written
       /\ pending' = r.cmd
       /\ loop_pc' = IF r.outcome = "continue" THEN "next_command"
                     ELSE run_editor_next("next_command", r.outcome)
       /\ result' = IF r.outcome = "continue" THEN result
                    ELSE run_editor_result("next_command", r.outcome)
  /\ UNCHANGED << tree, cursor, panicked, last_sgf, last_tree_display,
                  last_node_display, calls, replayVars, pipeVars, komiVars,
                  guiVars >>

\* The lines of each kind of command.
NavigateLines ==
  {Line(v, "", 0, TRUE, << >>) : v \in {"next", "prev"}}
    \cup {Line("branch", "", n, TRUE, << >>) : n \in 0..1}

DisplayLines ==
  {Line(v, "", 0, TRUE, << >>) :
     v \in {"", "error", "show", "tree", "completions"}}

LoadLines ==
  {Line("load", p, 0, TRUE, t) : p \in Paths, t \in CliTexts}
    \cup {Line("load", p, 0, FALSE, << >>) : p \in Paths}

SaveLines ==
  {Line("save", p, 0, io_ok, << >>) : p \in Paths \cup {""}, io_ok \in BOOLEAN}

EditLines ==
  {Line(v, "", 0, TRUE, << >>) : v \in {"delete", "variation"}}

QuitLines == {Line(v, "", 0, TRUE, << >>) : v \in {"quit", "EOF"}}

CliNavigate ==
  \E line \in NavigateLines : CliLine(next_command_arms(adapter, line))

CliDisplay ==
  \E line \in DisplayLines : CliLine(next_command_arms(adapter, line))

CliLoad ==
  \E line \in LoadLines : CliLine(next_command_read(adapter, line))

CliSave ==
  \E line \in SaveLines : CliLine(next_command_arms(adapter, line))

CliEdit ==
  \E line \in EditLines :
    /\ line.verb = "variation" => CanGrow
    /\ CliLine(next_command_arms(adapter, line))

CliQuit ==
  \E line \in QuitLines : CliLine(next_command_arms(adapter, line))

\* editor.apply(cmd)
CliApply ==
  /\ loop_pc = "apply"
  /\ \A r \in {apply(ed, pending)} :
       IF r.panic
       THEN /\ panicked' = TRUE
            /\ loop_pc' = "aborted"
            /\ UNCHANGED << tree, cursor >>
       ELSE /\ tree' = r.tree
            /\ cursor' = r.cursor
            /\ loop_pc' = run_editor_next("apply", "Ok")
            /\ UNCHANGED panicked
  /\ pending' = NoCmd
  /\ UNCHANGED << calls, result, cliVars, replayVars, pipeVars, komiVars,
                  guiVars >>

NextCli ==
  \/ CliRender
  \/ CliNavigate
  \/ CliDisplay
  \/ CliLoad
  \/ CliSave
  \/ CliEdit
  \/ CliQuit
  \/ CliApply

SpecCli == InitCli /\ [][NextCli]_vars

\* ------------------------------------------------------------------------
\* Properties of the tree under the editor (Spec)
\* ------------------------------------------------------------------------

Ids(t) == 0..(Len(t.nodes) - 1)

ChildSet(t, id) == {node(t, id).children[i] : i \in 1..Len(node(t, id).children)}

\* The ids reached from id through child lists, id included.
RECURSIVE Reach(_, _, _)
Reach(t, frontier, seen) ==
  IF frontier = {} THEN seen
  ELSE LET next == UNION {ChildSet(t, a) : a \in frontier} \ seen
       IN Reach(t, next, seen \cup next)

Descendants(t, id) == Reach(t, {id}, {id})

Yielded(seq) == {seq[i] : i \in 1..Len(seq)}

\* Following parent links from id reaches a parentless node.
RECURSIVE ReachesRoot(_, _, _)
ReachesRoot(t, id, fuel) ==
  IF node(t, id).parent = None THEN TRUE
  ELSE IF fuel = 0 THEN FALSE
  ELSE ReachesRoot(t, node(t, id).parent, fuel - 1)

NoDuplicateChild(t) ==
  /\ \A a \in Ids(t) : \A i, j \in 1..Len(node(t, a).children) :
       node(t, a).children[i] = node(t, a).children[j] => i = j
  /\ \A a, b \in Ids(t) : a # b => ChildSet(t, a) \cap ChildSet(t, b) = {}

Forest(t) ==
  /\ \A a \in Ids(t) : \A b \in ChildSet(t, a) :
       b \in Ids(t) /\ node(t, b).parent = a
  /\ NoDuplicateChild(t)
  /\ \A a \in Ids(t) : ReachesRoot(t, a, Len(t.nodes))

\* C2: after any sequence of add_node, remove_subtree and editor commands
\* on a tree of GameTree::new or parse_sgf, a child's parent is the node
\* listing it, no id is listed twice and no node is its own ancestor.
C2_ForestInvariant == Forest(tree)

\* C3: outside Load, the arena never shrinks, add_node hands out the arena
\* length before the call, and every id issued earlier still denotes its
\* node: same parent, and same properties unless a property command edited
\* the node under the cursor.
C3_NodeIdStable ==
  [][Load \/ panicked'
     \/ /\ Len(tree'.nodes) \in {Len(tree.nodes), Len(tree.nodes) + 1}
        /\ \A id \in Ids(tree) :
             /\ node(tree', id).parent = node(tree, id).parent
             /\ \/ node(tree', id).properties = node(tree, id).properties
                \/ id = cursor /\ (SetProperty \/ RemoveProperty)
        /\ AddMove => cursor' = Len(tree.nodes)
        /\ (AddMove \/ AppendVariation \/ TreeAddNode) =>
             /\ Len(tree'.nodes) = Len(tree.nodes) + 1
             /\ \E a \in Ids(tree') :
                  node(tree', a).children
                    = Append(IF a \in Ids(tree) THEN node(tree, a).children
                             ELSE << >>,
                             Len(tree.nodes))]_vars

\* An id issued before a removal of itself or of an ancestor is still in
\* the arena, after the arena has grown again.
C3_Witness ==
  /\ ~panicked
  /\ Len(tree.nodes) = MaxNodes
  /\ \E id \in Ids(tree) :
       /\ node(tree, id).parent # None
       /\ id \notin ChildSet(tree, node(tree, id).parent)
       /\ id < Len(tree.nodes) - 1

\* C4: after remove_subtree(id) on a non-root id, no traversal from a root
\* yields id or a descendant of it, and each of them still dereferences
\* with its properties and child list unchanged.
C4_RemovedUnreachable ==
  [][\A id \in Ids(tree) :
       (node(tree, id).parent # None /\ tree' = remove_subtree(tree, id)) =>
         \A d \in Descendants(tree, id) :
           /\ \A i \in 1..Len(tree'.roots) :
                /\ d \notin Yielded(iter_subtree(tree', tree'.roots[i]))
                /\ d \notin Yielded(iter_mainline(tree', tree'.roots[i]))
           /\ InArena(tree', d)
           /\ node(tree', d).properties = node(tree, d).properties
           /\ node(tree', d).children = node(tree, d).children]_vars

\* A node with a child of its own has been unlinked from its parent.
C4_Witness ==
  \E id \in Ids(tree) :
    /\ node(tree, id).parent # None
    /\ node(tree, id).parent # id
    /\ id \notin ChildSet(tree, node(tree, id).parent)
    /\ node(tree, id).children # << >>
    /\ tree.roots # << >>

\* C5: from_tree returns the empty board, with move_number 0 and no ko
\* point, for every cursor that is no id of the arena (every cursor of a
\* tree without nodes among them).
C5_DegenerateBoardEmpty ==
  \A c \in 0..(MaxNodes + 1) :
    ~InArena(tree, c) => from_tree(tree, c) = Replayed(EmptyBoard)

\* The ids on the parent path of id, id included.
RECURSIVE Up(_, _, _)
Up(t, id, seen) ==
  IF id \in seen THEN seen
  ELSE IF node(t, id).parent = None THEN seen \cup {id}
  ELSE Up(t, node(t, id).parent, seen \cup {id})

PathOf(t, id) == Up(t, id, {})

\* A property of node a puts a stone of the colour on row r, column c.
Places(p, color, r, c) ==
  \/ /\ p.tag = (IF color = "Black" THEN "B" ELSE "W")
     /\ secondField(p.n) = r /\ firstField(p.n) = c
  \/ /\ p.tag = (IF color = "Black" THEN "AB" ELSE "AW")
     /\ \E i \in 1..Len(p.cs) :
          secondField(p.cs[i]) = r /\ firstField(p.cs[i]) = c

StonesComeFromPath(t, n) ==
  LET b == from_tree(t, n)
  IN b.status = "ok" =>
       \A r, c \in 0..(Size - 1) :
         b.board.cells[r][c] # "Empty" =>
           \E a \in PathOf(t, n) :
             \E i \in 1..Len(node(t, a).properties) :
               Places(node(t, a).properties[i], b.board.cells[r][c], r, c)

\* C10: the board at a node shows no stone that a property on its own
\* root-to-node path did not place, and a step that leaves the properties
\* of the nodes on that path alone (nodes added or unlinked elsewhere,
\* properties edited elsewhere) leaves the board at the node unchanged.
C10_BranchIsolation ==
  /\ [](\A n \in Ids(tree) : StonesComeFromPath(tree, n))
  /\ [][Load \/ panicked'
        \/ \A n \in Ids(tree) :
             (\A a \in PathOf(tree, n) :
                node(tree', a).properties = node(tree, a).properties)
               => from_tree(tree', n) = from_tree(tree, n)]_vars

\* Two sibling variations carry different stones, and each board shows
\* its own stone and not the sibling's.
C10_Witness ==
  \E n, m \in Ids(tree) :
    /\ n # m
    /\ node(tree, n).parent # None
    /\ node(tree, n).parent = node(tree, m).parent
    /\ {n, m} \subseteq ChildSet(tree, node(tree, n).parent)
    /\ from_tree(tree, n).status = "ok"
    /\ from_tree(tree, m).status = "ok"
    /\ \E r, c \in 0..1 :
         /\ from_tree(tree, n).board.cells[r][c] # "Empty"
         /\ from_tree(tree, m).board.cells[r][c] = "Empty"

\* ------------------------------------------------------------------------
\* Properties of the text pipeline (SpecRoundTrip)
\* ------------------------------------------------------------------------

\* The subtrees of a in t1 and of b in t2 have the same properties in the
\* same order on corresponding nodes and the same child order.
RECURSIVE SameSubtree(_, _, _, _)
SameSubtree(t1, a, t2, b) ==
  /\ node(t1, a).properties = node(t2, b).properties
  /\ Len(node(t1, a).children) = Len(node(t2, b).children)
  /\ \A i \in 1..Len(node(t1, a).children) :
       SameSubtree(t1, node(t1, a).children[i], t2, node(t2, b).children[i])

SameShape(t1, t2) ==
  /\ Len(t1.roots) = Len(t2.roots)
  /\ \A i \in 1..Len(t1.roots) : SameSubtree(t1, t1.roots[i], t2, t2.roots[i])

\* C1: for every tree t returned by parse_sgf, parse_sgf(write_sgf(t))
\* succeeds and yields a tree with the same roots, the same properties in
\* the same order on corresponding nodes and the same child order.
C1_RoundTrip ==
  pc = "reparsed" => reparsed.ok /\ SameShape(parsed.val, reparsed.val)

\* ------------------------------------------------------------------------
\* Properties of the replay (SpecReplay)
\* ------------------------------------------------------------------------

Cells == (0..(Size - 1)) \X (0..(Size - 1))

Adjacent(p, q) ==
  \/ p[1] = q[1] /\ (p[2] = q[2] + 1 \/ q[2] = p[2] + 1)
  \/ p[2] = q[2] /\ (p[1] = q[1] + 1 \/ q[1] = p[1] + 1)

\* The set S, held as its elements.
Elements(S) == {x : x \in S}

\* The least set holding g and closed under adjacency within stones.
RECURSIVE Closure(_, _)
Closure(stones, g) ==
  LET more == Elements({x \in stones \ g : \E y \in g : Adjacent(x, y)})
  IN IF more = {} THEN g ELSE Closure(stones, Elements(g \cup more))

StonesOf(cells, color) ==
  Elements({x \in Cells : cells[x[1]][x[2]] = color})

\* The maximal orthogonally connected group of the stone at q.
GroupOf(cells, q) ==
  UNION {Closure(stones, {q}) : stones \in {StonesOf(cells, cells[q[1]][q[2]])}}

Around(y) ==
  {x \in {<< y[1] - 1, y[2] >>, << y[1] + 1, y[2] >>,
          << y[1], y[2] - 1 >>, << y[1], y[2] + 1 >>} : x \in Cells}

LibertiesOf(cells, g) ==
  Elements({x \in UNION {Around(y) : y \in g} : cells[x[1]][x[2]] = "Empty"})

\* Of the stones foes, those of a group that touches p and has no liberty.
DeadAmong(placed, foes, p) ==
  Elements({q \in foes :
              \E g \in {Closure(foes, {q})} :
                /\ \E y \in g : Adjacent(y, p)
                /\ LibertiesOf(placed, g) = {}})

\* The stones of the opposite colour a move of color at p removes: those
\* of a group that touches p and has no liberty once the stone is placed.
Dead(cells, p, color) ==
  UNION {UNION {DeadAmong(placed, foes, p) :
                  foes \in {StonesOf(placed, opposite(color))}} :
           placed \in {SetCell(cells, p[1], p[2], color)}}

\* new differs from old exactly on the cells of changed, where it holds
\* what expected gives.
ChangedExactly(old, new, changed, expected(_)) ==
  \A r \in 0..(Size - 1) :
    IF \E q \in changed : q[1] = r
    THEN \A c \in 0..(Size - 1) :
           new[r][c] = IF << r, c >> \in changed THEN expected(<< r, c >>)
                       ELSE old[r][c]
    ELSE new[r] = old[r]

ColorOf(tag) == IF tag \in {"B", "AB"} THEN "Black" ELSE "White"

\* The step replayed a B or W property (the one of last_tag') at point p.
MovedAt(p) ==
  /\ last_tag' \in {"B", "W"}
  /\ board'.status = "ok"
  /\ board' = replay_property(board.board,
                              Prop(last_tag', CoordOf(p), << >>, << >>, << >>))

\* C6: replaying a B or W property whose coordinate is the pass sentinel
\* changes no cell, adds one to move_number and completes normally.
C6_PassChangesNothing ==
  [][(ReplayStep(PropB(pass)) \/ ReplayStep(PropW(pass))) =>
       /\ board'.status = "ok"
       /\ board'.board.cells = board.board.cells
       /\ board'.board.move_number = board.board.move_number + 1]_vars

\* C7: a move of colour C at P removes exactly the stones of the opposite
\* colour whose group touches P and has no liberty after the placement,
\* and adds their number to the counter of the stones captured by C
\* (captured_black for Black, captured_white for White) and nothing to
\* the other counter.
C7_CaptureResolution ==
  [][\A p \in Points :
       MovedAt(p) =>
         \A dead \in {Dead(board.board.cells, p, ColorOf(last_tag'))} :
           /\ LET after(q) == IF q \in dead THEN "Empty" ELSE ColorOf(last_tag')
              IN ChangedExactly(board.board.cells, board'.board.cells,
                                dead \cup {p}, after)
           /\ board'.board.captured_black = board.board.captured_black
                + (IF last_tag' = "B" THEN Cardinality(dead) ELSE 0)
           /\ board'.board.captured_white = board.board.captured_white
                + (IF last_tag' = "W" THEN Cardinality(dead) ELSE 0)]_vars

\* A move has removed two or more stones.
C7_Witness ==
  /\ last_tag \in {"B", "W"}
  /\ board.status = "ok"
  /\ board.board.captured_black + board.board.captured_white >= 2

\* C8: after a move the ko point is the captured cell if and only if the
\* move removed exactly one stone and the group of the placed stone then
\* has exactly one liberty; otherwise it is None.
C8_KoRule ==
  [][\A p \in Points :
       MovedAt(p) =>
         \A dead \in {Dead(board.board.cells, p, ColorOf(last_tag'))} :
         LET new == board'.board
         IN new.ko_point =
              IF Cardinality(dead) = 1
                 /\ Cardinality(LibertiesOf(new.cells, GroupOf(new.cells, p))) = 1
              THEN CHOOSE q \in dead : TRUE
              ELSE NoKo]_vars

\* A move has set the ko point.
C8_Witness ==
  /\ last_tag \in {"B", "W"}
  /\ board.status = "ok"
  /\ board.board.ko_point # NoKo
  /\ board.board.captured_black + board.board.captured_white = 1

\* The step replayed an AB or AW property (the one of last_tag') listing cs.
SetUp(cs) ==
  /\ last_tag' \in {"AB", "AW"}
  /\ board' = replay_property(board.board,
                              Prop(last_tag', 0, cs, << >>, << >>))

\* C9: an AB or AW property sets exactly its listed cells to its colour,
\* leaves move_number and the capture counters alone and clears the ko
\* point; so move_number is the number of B and W properties replayed.
C9_SetupStones ==
  /\ [][\A cs \in SetupLists :
          SetUp(cs) =>
            /\ board'.status = "ok"
            /\ LET listed == {q \in Points : \E i \in 1..Len(cs) : cs[i] = CoordOf(q)}
                   colour(q) == ColorOf(last_tag')
               IN ChangedExactly(board.board.cells, board'.board.cells,
                                 listed, colour)
            /\ board'.board.move_number = board.board.move_number
            /\ board'.board.captured_black = board.board.captured_black
            /\ board'.board.captured_white = board.board.captured_white
            /\ board'.board.ko_point = NoKo]_vars
  /\ [](board.status = "ok" => board.board.move_number = moves_replayed)

\* A setup property was replayed right after a move that had set the ko
\* point.
C9_Witness ==
  /\ last_tag \in {"AB", "AW"}
  /\ prev_ko # NoKo
  /\ board.status = "ok"
  /\ board.board.ko_point = NoKo
  /\ board.board.move_number = 1

\* ------------------------------------------------------------------------
\* Properties of the editor commands (Spec)
\* ------------------------------------------------------------------------

\* C11: at every node of the tree, NavigateNext without children,
\* NavigatePrev without parent and NavigateBranch(n) with n at or past the
\* number of children return the editor as it was, without abort, and
\* advance, retreat and branch return false and stay in place.
C11_NavigationNoOps ==
  \A id \in Ids(tree) :
    /\ node(tree, id).children = << >> =>
         /\ apply_NavigateNext(Editor(tree, id)) = Editor(tree, id)
         /\ advance(tree, id) = Moved(FALSE, id)
    /\ node(tree, id).parent = None =>
         /\ apply_NavigatePrev(Editor(tree, id)) = Editor(tree, id)
         /\ retreat(tree, id) = Moved(FALSE, id)
    /\ \A n \in Len(node(tree, id).children)..(MaxNodes + 1) :
         /\ apply_NavigateBranch(Editor(tree, id), n) = Editor(tree, id)
         /\ branch(tree, id, n) = Moved(FALSE, id)

\* The cursor is on a leaf whose parent has two children or more: the
\* first two cases at the cursor, an index out of range at its parent.
C11_Witness ==
  /\ ~panicked
  /\ InArena(tree, cursor)
  /\ node(tree, cursor).children = << >>
  /\ node(tree, cursor).parent # None
  /\ Len(node(tree, node(tree, cursor).parent).children) >= 2
  /\ \E r \in Ids(tree) : node(tree, r).parent = None

\* C12: at every parentless node, DeleteCurrentNode returns the editor as
\* it was (cursor, roots, child lists and property lists) without abort,
\* and remove_subtree returns the tree as it was.
C12_DeleteAtRootNoOp ==
  \A id \in Ids(tree) :
    node(tree, id).parent = None =>
      /\ apply_DeleteCurrentNode(Editor(tree, id)) = Editor(tree, id)
      /\ remove_subtree(tree, id) = tree

\* The cursor is on a root that has children, in a tree of two games.
C12_Witness ==
  /\ ~panicked
  /\ InArena(tree, cursor)
  /\ node(tree, cursor).parent = None
  /\ node(tree, cursor).children # << >>
  /\ Len(tree.roots) >= 2
  /\ cursor \in Yielded(tree.roots)

\* The ids reached by child links from the roots list or from a parentless
\* node.
FromRoots(t) ==
  Reach(t, Yielded(t.roots) \cup {a \in Ids(t) : node(t, a).parent = None},
        Yielded(t.roots) \cup {a \in Ids(t) : node(t, a).parent = None})

\* C13: DeleteCurrentNode at a node c with parent p does not abort, sets
\* the cursor to p, leaves p's child list as it was without c, the other
\* children in their order, and leaves no node of c's subtree reachable from
\* a root.
C13_DeleteNonRoot ==
  \A c \in Ids(tree) :
    node(tree, c).parent # None =>
      \A r \in {apply_DeleteCurrentNode(Editor(tree, c))} :
        /\ ~r.panic
        /\ r.cursor = node(tree, c).parent
        /\ node(r.tree, r.cursor).children
             = SelectSeq(node(tree, node(tree, c).parent).children,
                         LAMBDA x : x # c)
        /\ Descendants(tree, c) \cap FromRoots(r.tree) = {}

\* After a delete: the cursor node is the parent of a node with a child of
\* its own that it no longer lists, and it still lists another child.
C13_Witness ==
  /\ ~panicked
  /\ InArena(tree, cursor)
  /\ \E c \in Ids(tree) :
       /\ node(tree, c).parent = cursor
       /\ c # cursor
       /\ c \notin ChildSet(tree, cursor)
  /\ node(tree, cursor).children # << >>
  /\ cursor \in FromRoots(tree)

\* C14: SetProperty(p) at a node does not abort and keeps the cursor; when
\* a property of the node has p's key, the first such property is replaced
\* by p where it stands and the rest of the list is as before; when none
\* has, the list is the old one with p appended.
C14_PropertyUpsert ==
  \A id \in Ids(tree) : \A p \in SetProps \cup MoveProps :
    \A r \in {apply_SetProperty(Editor(tree, id), p)} :
      \A props \in {node(tree, id).properties} :
        /\ ~r.panic
        /\ r.cursor = id
        /\ \A new \in {node(r.tree, id).properties} :
             IF \E i \in 1..Len(props) : property_key(props[i]) = property_key(p)
             THEN /\ Len(new) = Len(props)
                  /\ \E i \in 1..Len(props) :
                       /\ property_key(props[i]) = property_key(p)
                       /\ \A j \in 1..(i - 1) :
                            property_key(props[j]) # property_key(p)
                       /\ new[i] = p
                       /\ \A j \in 1..Len(props) : j # i => new[j] = props[j]
             ELSE /\ Len(new) = Len(props) + 1
                  /\ new[Len(new)] = p
                  /\ \A j \in 1..Len(props) : new[j] = props[j]

\* After SetProperty on a node that had two properties of the key: the first
\* holds the new value, the third still has the key, the length is three.
C14_Witness ==
  /\ ~panicked
  /\ InArena(tree, cursor)
  /\ \A props \in {node(tree, cursor).properties} :
       /\ Len(props) = 3
       /\ props[1] \in SetProps
       /\ property_key(props[3]) = property_key(props[1])
       /\ props[3] # props[1]

\* The arena of new is the arena of old with one node more, the node
\* TreeNode(props, parent, no children), listed last among parent's
\* children; every other node is as it was.
OneNodeAdded(old, new, parent, props) ==
  /\ Len(new.nodes) = Len(old.nodes) + 1
  /\ new.roots = old.roots
  /\ node(new, Len(old.nodes)) = TreeNode(props, parent, << >>)
  /\ \A a \in Ids(old) :
       node(new, a)
         = IF a = parent
             THEN [node(old, a) EXCEPT !.children = Append(@, Len(old.nodes))]
             ELSE node(old, a)

\* C15: AddMove(p) at the editor's cursor does not abort, adds exactly one
\* node, with properties [p], parent the cursor and no children, as the last
\* child of the cursor node, and sets the cursor to the new node.
C15_AddMove ==
  ~panicked =>
    \A p \in MoveProps :
      \A r \in {apply_AddMove(ed, p)} :
        /\ ~r.panic
        /\ OneNodeAdded(tree, r.tree, cursor, << p >>)
        /\ r.cursor = Len(tree.nodes)

\* C16: AppendVariation at the editor's cursor does not abort, adds exactly
\* one node, without properties and children, as the last child of the
\* cursor node, keeps the cursor, and NavigateBranch(k), k the number of
\* children before the command, then moves the cursor to the new node.
C16_AppendVariation ==
  ~panicked =>
    \A r \in {apply_AppendVariation(ed)} :
      /\ ~r.panic
      /\ OneNodeAdded(tree, r.tree, cursor, << >>)
      /\ r.cursor = cursor
      /\ \A k \in {IF InArena(tree, cursor)
                     THEN Len(node(tree, cursor).children) ELSE 0} :
           apply_NavigateBranch(r, k) = Editor(r.tree, Len(tree.nodes))

\* C17: for every tree t of GameTree::new, new_game_tree or parse_sgf,
\* Load(t) and Editor::new(t) give the editor the tree t and a cursor that
\* is t's first root, hence a member of t.roots.
C17_LoadResetsCursor ==
  \A t \in LoadTrees :
    \A r \in {apply_Load(ed, t), Editor_new(t)} :
      /\ ~r.panic
      /\ r.tree = t
      /\ r.cursor \in Yielded(t.roots)
      /\ \A i \in 1..Len(t.roots) : i = 1 => r.cursor = t.roots[i]

\* ------------------------------------------------------------------------
\* Properties of parse_sgf and write_sgf (SpecRoundTrip)
\* ------------------------------------------------------------------------

\* The identifier/values pairs of the collections cs of a structural parse.
RECURSIVE RawProperties(_)
RawProperties(cs) ==
  UNION {(UNION {Yielded(c.nodes[n]) : n \in 1..Len(c.nodes)})
           \cup RawProperties(c.children)
         : c \in Yielded(cs)}

\* Two letters of a..s.
CoordText(v) ==
  /\ Len(v) = 2
  /\ \A i \in 1..Len(v) : \E k \in 1..19 : Letters[k] = v[i]

\* A value the text gives a known tag that is not of the tag's type: no
\* coordinate for B or W (first value) and AB or AW (any value), no number
\* for SZ or GM, none of 1..4 for FF.
MalformedProperty(p) ==
  \/ /\ p.ident \in {TagIdent["B"], TagIdent["W"]}
     /\ ~CoordText(p.values[1])
  \/ /\ p.ident \in {TagIdent["AB"], TagIdent["AW"]}
     /\ \E i \in 1..Len(p.values) : ~CoordText(p.values[i])
  \/ /\ p.ident \in {TagIdent["SZ"], TagIdent["GM"]}
     /\ (p.values[1] = << >> \/ ~AllDigits(p.values[1]))
  \/ /\ p.ident = TagIdent["FF"]
     /\ p.values[1] \notin {<< "1" >>, << "2" >>, << "3" >>, << "4" >>}

\* C18: parse_sgf returns an error for every grammatical text that holds a
\* malformed value for a known tag.
C18_ParseFailureTotal ==
  (/\ pc # "input"
   /\ ParseFile(input).ok
   /\ \E p \in RawProperties(ParseFile(input).val) : MalformedProperty(p))
    => ~parsed.ok

\* The nodes of the collections cs of a structural parse, in text order.
RECURSIVE RawNodes(_)
RawNodes(cs) ==
  IF cs = << >> THEN << >>
  ELSE Head(cs).nodes \o RawNodes(Head(cs).children) \o RawNodes(Tail(cs))

UnknownIdent(ident) == \A t \in KnownTags : TagIdent[t] # ident

IsPrefix(a, b) == Len(a) <= Len(b) /\ SubSeq(b, 1, Len(a)) = a

\* ident[v1][v2]..., written out character by character.
RECURSIVE Bracketed(_, _)
Bracketed(vs, i) ==
  IF i > Len(vs) THEN << >>
  ELSE << "[" >> \o vs[i] \o << "]" >> \o Bracketed(vs, i + 1)

\* C19: in a grammatical text, a property with an unknown identifier is
\* never the error of the parse; when the parse succeeds, the node holds, at
\* the property's position, Unknown with the identifier and all the values
\* in order, and the text written for the node has, after the texts of the
\* properties before it, the identifier and each value in brackets.
C19_UnknownPassthrough ==
  (pc # "input" /\ ParseFile(input).ok) =>
    \A raw \in {RawNodes(ParseFile(input).val)} :
      /\ \A n \in 1..Len(raw) : \A k \in 1..Len(raw[n]) :
           UnknownIdent(raw[n][k].ident) =>
             property(raw[n][k].ident, raw[n][k].values)
               = Ok(PropUnknown(raw[n][k].ident, raw[n][k].values))
      /\ parsed.ok
           \/ \E n \in 1..Len(raw) : \E k \in 1..Len(raw[n]) :
                /\ ~UnknownIdent(raw[n][k].ident)
                /\ ~property(raw[n][k].ident, raw[n][k].values).ok
      /\ parsed.ok =>
           /\ Len(parsed.val.nodes) = Len(raw)
           /\ \A n \in 1..Len(raw) :
                \A props \in {node(parsed.val, n - 1).properties} :
                  /\ Len(props) = Len(raw[n])
                  /\ \A k \in 1..Len(raw[n]) :
                       UnknownIdent(raw[n][k].ident) =>
                         /\ props[k].tag = "Unknown"
                         /\ props[k].s = raw[n][k].ident
                         /\ props[k].vs = raw[n][k].values
                         /\ IsPrefix(<< ";" >>
                                       \o write_properties(SubSeq(props, 1, k - 1))
                                       \o raw[n][k].ident
                                       \o Bracketed(raw[n][k].values, 1),
                                     write_node(parsed.val, n - 1))
      /\ (parsed.ok /\ pc # "parsed") => output = write_sgf(parsed.val)

\* The text with an unknown property of two values, one of them empty,
\* after a known property has been parsed and written.
C19_Witness ==
  /\ pc = "written"
  /\ parsed.ok
  /\ Len(parsed.val.nodes) = 1
  /\ \A props \in {node(parsed.val, 0).properties} :
       /\ Len(props) = 3
       /\ props[2] = PropUnknown(<< "X", "Y" >>, << << "q" >>, << >> >>)
  /\ output = T_unknown

\* C20: in every tree parse_sgf returns, a node has no parent exactly when
\* its id is listed in roots, and every node of the arena is reached from a
\* listed root by child links.
C20_RootsAreParentless ==
  (pc # "input" /\ parsed.ok) =>
    \A t \in {parsed.val} :
      /\ \A id \in Ids(t) :
           node(t, id).parent = None <=> id \in Yielded(t.roots)
      /\ Ids(t) \subseteq Reach(t, Yielded(t.roots), Yielded(t.roots))

\* ------------------------------------------------------------------------
\* Properties of write_sgf and iter_subtree on the editor's trees (Spec)
\* ------------------------------------------------------------------------

\* Number of positions of the text that hold the character ch.
Count(text, ch) == Cardinality({i \in 1..Len(text) : text[i] = ch})

\* No prefix of the text closes more parentheses than it opens, and the
\* whole text closes as many as it opens.
Balanced(text) ==
  /\ Count(text, "(") = Count(text, ")")
  /\ \A n \in 1..Len(text) :
       Count(SubSeq(text, 1, n), ")") <= Count(SubSeq(text, 1, n), "(")

RECURSIVE SumOver(_, _)
SumOver(S, f) ==
  IF S = {} THEN 0
  ELSE LET a == CHOOSE x \in S : TRUE IN f[a] + SumOver(S \ {a}, f)

\* The ids reached by child links from the roots list.
Listed(t) == Reach(t, Yielded(t.roots), Yielded(t.roots))

RECURSIVE CollSize(_)
RECURSIVE CollsSize(_)
CollSize(c) == Len(c.nodes) + CollsSize(c.children)

CollsSize(cs) ==
  IF cs = << >> THEN 0 ELSE CollSize(Head(cs)) + CollsSize(Tail(cs))

\* The arena position at which each collection of cs starts when the first
\* starts at base and ids are handed out in text order.
RECURSIVE StartIds(_, _)
StartIds(cs, base) ==
  IF cs = << >> THEN << >>
  ELSE << base >> \o StartIds(Tail(cs), base + CollSize(Head(cs)))

HasNodes(c) == c.nodes # << >>

\* The first nodes of the collections of cs that have a node, in order.
RECURSIVE FirstNodes(_, _)
FirstNodes(cs, base) ==
  IF cs = << >> THEN << >>
  ELSE (IF HasNodes(Head(cs)) THEN << base >> ELSE << >>)
         \o FirstNodes(Tail(cs), base + CollSize(Head(cs)))

\* The collection c, laid out from base on, has the claimed shape in t, and
\* so have its sub-collections.
RECURSIVE RunShape(_, _, _)
RunShape(t, c, base) ==
  \A k \in {Len(c.nodes)} : \A starts \in {StartIds(c.children, base + k)} :
    /\ (k >= 1 /\ \A j \in 1..Len(c.children) : HasNodes(c.children[j])) =>
         /\ \A i \in 1..(k - 1) :
              node(t, base + i - 1).children = << base + i >>
         /\ node(t, base + k - 1).children = starts
    /\ \A j \in 1..Len(c.children) : RunShape(t, c.children[j], starts[j])

RECURSIVE PreOrder(_, _)
PreOrder(t, id) ==
  << id >> \o Cat([i \in 1..Len(node(t, id).children) |->
                     PreOrder(t, node(t, id).children[i])])

\* C23: from every node of the arena, iter_subtree ends, and what it yields
\* begins with the start, holds each node reached from the start by child
\* links exactly once, and is the depth-first pre-order with the children
\* taken first to last.
C23_SubtreePreOrder ==
  \A start \in Ids(tree) :
    \A seq \in {iter_subtree(tree, start)} :
      /\ Len(seq) <= Len(tree.nodes)
      /\ seq[1] = start
      /\ Yielded(seq) = Descendants(tree, start)
      /\ \A i, j \in 1..Len(seq) : seq[i] = seq[j] => i = j
      /\ seq = PreOrder(tree, start)

\* The property lists add_node is tried with: none, one and two properties.
NodeProps ==
  {<< >>} \cup {<< p >> : p \in MoveProps}
    \cup {<< p, q >> : p \in MoveProps, q \in SetProps}

\* C24: add_node(parent, props), for parent an id of the arena or the
\* editor's cursor, returns the old arena length and changes nothing but
\* the arena, which gets one node more with the given parent, no children
\* and props as given, and parent's child list, which gets the new id at
\* its end.
C24_AddNodeFrame ==
  \A parent \in Ids(tree) \cup {cursor} : \A props \in NodeProps :
    \A r \in {add_node(tree, parent, props)} :
      /\ ~r.panic
      /\ r.id = Len(tree.nodes)
      /\ OneNodeAdded(tree, r.tree, parent, props)

\* ------------------------------------------------------------------------
\* Properties of the komi text (SpecKomi)
\* ------------------------------------------------------------------------

\* C25: the text Display renders for a Komi of any number of half-points
\* parses back, by FromStr, to the same number of half-points.
C25_KomiRoundTrip == komi_pc = "reread" => komi_back = Ok(komi)

\* ------------------------------------------------------------------------
\* Properties of the replayed coordinates and moves (SpecReplay)
\* ------------------------------------------------------------------------

\* Both packed fields of the coordinate are indices of the grid.
InGrid(c) ==
  /\ firstField(c) \in 0..(Size - 1)
  /\ secondField(c) \in 0..(Size - 1)

\* C26: every coordinate of a B, W, AB or AW property that the replay is
\* given, a board point or the coordinate the pass button stores, has both
\* packed fields in [0,19).
C26_CoordinateRange ==
  [][/\ \A c \in MoveCoords :
          (ReplayStep(PropB(c)) \/ ReplayStep(PropW(c))) => InGrid(c)
     /\ \A cs \in SetupLists :
          (ReplayStep(PropAB(cs)) \/ ReplayStep(PropAW(cs))) =>
            \A i \in 1..Len(cs) : InGrid(cs[i])]_vars

\* C27: after the replay of a move of colour C at a board point P, the cell
\* P holds C, whatever it held before and whatever liberties the group of
\* the placed stone has, and every cell that held C before holds C still.
C27_MoveNeverRejected ==
  [][\A p \in Points :
       MovedAt(p) =>
         \A C \in {ColorOf(last_tag')} :
           /\ board'.board.cells[p[1]][p[2]] = C
           /\ \A q \in StonesOf(board.board.cells, C) :
                board'.board.cells[q[1]][q[2]] = C]_vars

\* After one move the only stone of the mover's colour, the placed one,
\* stands without a liberty.
C27_Witness ==
  /\ last_tag \in {"B", "W"}
  /\ board.status = "ok"
  /\ moves_replayed = 1
  /\ \A mine \in {StonesOf(board.board.cells, ColorOf(last_tag))} :
       /\ Cardinality(mine) = 1
       /\ LibertiesOf(board.board.cells, mine) = {}

\* ------------------------------------------------------------------------
\* Further properties of the editor commands (Spec)
\* ------------------------------------------------------------------------

\* The keys RemoveProperty is tried with: keys of properties of the trees
\* and a key no property has.
TriedKeys ==
  RemoveKeys \cup {TagIdent["B"], TagIdent["KM"], << "Z", "Z" >>}

\* C28: RemoveProperty(k) at a node does not abort, keeps the cursor, leaves
\* of the node's properties those whose key is not k, in their order, and
\* changes nothing else of the tree; without a property of key k it changes
\* nothing.
C28_RemoveProperty ==
  \A id \in Ids(tree) : \A k \in TriedKeys :
    \A r \in {apply_RemoveProperty(Editor(tree, id), k)} :
      \A props \in {node(tree, id).properties} :
        /\ ~r.panic
        /\ r.cursor = id
        /\ node(r.tree, id).properties
             = SelectSeq(props, LAMBDA q : property_key(q) # k)
        /\ r.tree = [tree EXCEPT
                       !.nodes[id + 1].properties = node(r.tree, id).properties]
        /\ (\A i \in 1..Len(props) : property_key(props[i]) # k) =>
             r = Editor(tree, id)

\* After RemoveProperty on the node that held AB, KM, AB: KM alone is left.
C28_Witness ==
  /\ ~panicked
  /\ Len(tree.nodes) = 1
  /\ cursor = 0
  /\ node(tree, 0).properties = << PropNum("KM", 13) >>

\* C29: from every node c, when NavigateNext (c having a child) or
\* NavigateBranch(n) (n below the number of c's children) has moved the
\* cursor to a child of c, NavigatePrev right after it gives the editor with
\* the same tree and the cursor on c.
C29_NavigationInverse ==
  \A c \in Ids(tree) : \A ch \in {node(tree, c).children} :
    /\ ch # << >> =>
         \A r \in {apply_NavigateNext(Editor(tree, c))} :
           /\ ~r.panic
           /\ r.cursor = ch[1]
           /\ apply_NavigatePrev(r) = Editor(tree, c)
    /\ \A n \in 0..(Len(ch) - 1) :
         \A r \in {apply_NavigateBranch(Editor(tree, c), n)} :
           /\ ~r.panic
           /\ r.cursor = ch[n + 1]
           /\ apply_NavigatePrev(r) = Editor(tree, c)

\* The cursor is on a child of a node that is itself a child, in a tree
\* that editor commands have built.
C29_Witness ==
  /\ ~panicked
  /\ InArena(tree, cursor)
  /\ tree \notin LoadTrees
  /\ \E p \in Ids(tree) :
       /\ cursor \in ChildSet(tree, p)
       /\ p # cursor
       /\ node(tree, p).parent \notin {None, p, cursor}
       /\ p \in ChildSet(tree, node(tree, p).parent)

\* ------------------------------------------------------------------------
\* Properties of run_editor (SpecLoop)
\* ------------------------------------------------------------------------

\* The calls so far go render, next_command, apply, render, ...; render and
\* next_command are given the editor as the last apply left it (the first
\* render: as run_editor received it); apply is given the command the call
\* before it returned and leaves the editor Editor::apply makes of it; only
\* the last call has failed or returned None.
LoopOrder ==
  \A i \in 1..Len(calls) :
    /\ calls[i].callee = << "render", "next_command", "apply" >>[((i - 1) % 3) + 1]
    /\ i < Len(calls) => calls[i].outcome \in {"Ok", "Some"}
    /\ calls[i].callee = "render" =>
         IF i = 1 THEN calls[i].editor \in {Editor_new(t) : t \in LoopTrees}
         ELSE calls[i].editor = calls[i - 1].editor
    /\ calls[i].callee = "next_command" =>
         calls[i].editor = calls[i - 1].editor
    /\ calls[i].callee = "apply" =>
         /\ calls[i - 1].outcome = "Some"
         /\ calls[i].cmd = calls[i - 1].cmd
         /\ calls[i].outcome = "Ok"
         /\ calls[i].editor = apply(calls[i - 2].editor, calls[i].cmd)

\* run_editor has returned Ok exactly when the last call is a next_command
\* that returned None, and the error exactly when the last call failed; the
\* editor is the one the last call was given or left.
LoopEnd ==
  /\ result = "Ok" <=>
       /\ calls # << >>
       /\ calls[Len(calls)].callee = "next_command"
       /\ calls[Len(calls)].outcome = "None"
  /\ result = "Err" <=>
       /\ calls # << >>
       /\ calls[Len(calls)].callee \in {"render", "next_command"}
       /\ calls[Len(calls)].outcome = "Err"
  /\ result # "None" <=> loop_pc = "returned"
  /\ calls # << >> => ed = calls[Len(calls)].editor

\* C30: run_editor calls render, next_command and apply in strict
\* alternation, render first and on the current editor, applies each
\* returned command once before the next render, returns Ok as soon as
\* next_command returns None and the error as soon as render or
\* next_command fails, and takes no step after it has returned.
C30_RunEditorLoop ==
  /\ [](LoopOrder /\ LoopEnd)
  /\ [][result = "None" /\ Len(calls') = Len(calls) + 1]_vars

\* Two commands have been applied, a third render has been made and
\* next_command has returned None.
C30_Witness ==
  /\ result = "Ok"
  /\ Len(calls) >= 8
  /\ calls[6].callee = "apply"
  /\ calls[6].editor # calls[1].editor

\* ------------------------------------------------------------------------
\* Frame of the editor commands (Spec)
\* ------------------------------------------------------------------------

\* The trees differ at most in the property list of node id: same arena
\* size, same roots, same parent and child links, same properties of the
\* other nodes.
SameButProperties(old, new, id) ==
  /\ Len(new.nodes) = Len(old.nodes)
  /\ new.roots = old.roots
  /\ \A a \in Ids(old) :
       /\ node(new, a).parent = node(old, a).parent
       /\ node(new, a).children = node(old, a).children
       /\ a # id => node(new, a).properties = node(old, a).properties

\* C35: at every node, NavigateNext, NavigatePrev and NavigateBranch(n)
\* return the tree as it was; SetProperty and RemoveProperty keep the cursor
\* and change at most the property list of the cursor node: the arena size,
\* the roots, every parent and child link and the properties of the other
\* nodes are as before.
C35_CommandFrame ==
  \A id \in Ids(tree) :
    /\ apply_NavigateNext(Editor(tree, id)).tree = tree
    /\ apply_NavigatePrev(Editor(tree, id)).tree = tree
    /\ \A n \in 0..MaxNodes : apply_NavigateBranch(Editor(tree, id), n).tree = tree
    /\ \A p \in SetProps \cup MoveProps :
         \A r \in {apply_SetProperty(Editor(tree, id), p)} :
           ~r.panic /\ r.cursor = id /\ SameButProperties(tree, r.tree, id)
    /\ \A k \in TriedKeys :
         \A r \in {apply_RemoveProperty(Editor(tree, id), k)} :
           ~r.panic /\ r.cursor = id /\ SameButProperties(tree, r.tree, id)

\* The cursor is on a node with a parent and a child, and its parent holds
\* a property of a key RemoveProperty is tried with, so that each command
\* of the claim has something it could have changed.
C35_Witness ==
  /\ ~panicked
  /\ InArena(tree, cursor)
  /\ node(tree, cursor).parent \notin {None, cursor}
  /\ node(tree, cursor).children # << >>
  /\ \E i \in 1..Len(node(tree, node(tree, cursor).parent).properties) :
       property_key(node(tree, node(tree, cursor).parent).properties[i])
         \in TriedKeys

\* ------------------------------------------------------------------------
\* The ko point of a replayed board (SpecReplay)
\* ------------------------------------------------------------------------

\* C36: on every board replayed without abort from moves on the board and
\* setup properties, a ko point that is set names an empty cell, the last
\* property replayed is a B or W property, and the ko point is
\* orthogonally adjacent to the point of that property, which holds the
\* stone placed.
C36_KoPointWellFormed ==
  /\ []((board.status = "ok" /\ board.board.ko_point # NoKo) =>
         /\ last_tag \in {"B", "W"}
         /\ board.board.ko_point \in Cells
         /\ board.board.cells[board.board.ko_point[1]][board.board.ko_point[2]]
              = "Empty")
  /\ [][\A p \in Points :
          (MovedAt(p) /\ board'.board.ko_point # NoKo) =>
            /\ Adjacent(board'.board.ko_point, p)
            /\ board'.board.cells[p[1]][p[2]] = ColorOf(last_tag')]_vars

\* A move has removed one stone and set the ko point away from the corner,
\* on a board that holds four stones or more.
C36_Witness ==
  /\ board.status = "ok"
  /\ last_tag \in {"B", "W"}
  /\ board.board.ko_point \notin {NoKo, << 0, 0 >>}
  /\ Cardinality(StonesOf(board.board.cells, "Black")
                   \cup StonesOf(board.board.cells, "White")) >= 4

\* ------------------------------------------------------------------------
\* Properties of the GUI (SpecGui)
\* ------------------------------------------------------------------------

\* C32: after every message update has processed, cached_board is the board
\* Board::from_tree computes for the editor's tree and cursor as they are.
C32_BoardCacheFresh ==
  ~panicked => from_tree(tree, cursor) = Replayed(cached_board)

\* The cursor is on a move that captured, in a file of which a game other
\* than the first was selected before.
C32_Witness ==
  /\ ~panicked
  /\ cached_board.captured_black = 1
  /\ cached_board.move_number = 1
  /\ node(tree, cursor).parent # None
  /\ file_path # Nothing
  /\ active_game_index = 1

\* Texts parse_sgf rejects, each for a value SGFParser::property does not
\* convert: (;B[zz]) and (;SZ[x]).
FailingTexts == {T_bad_move, << "(", ";", "S", "Z", "[", "x", "]", ")" >>}

\* C33: FileOpened with a text that parse_sgf rejects, and FileOpened with
\* the error of a failed read, return the app with status_message set to
\* an error and with the editor's tree and cursor, cached_board, file_path
\* and every other field as they were, and start no task.
C33_FailedOpenRecoverable ==
  ~panicked =>
    /\ \A t \in FailingTexts : ~parse_sgf(t).ok
    /\ \A p \in Paths : \A t \in FailingTexts :
         update(app, Message("FileOpened", TRUE, p, t, None, None, 0))
           = Updated([app EXCEPT !.status_message = "Error"], Task_none)
    /\ update(app, Message("FileOpened", FALSE, "", << >>, None, None, 0))
         = Updated([app EXCEPT !.status_message = "Error"], Task_none)

\* An open task is running while the app shows, without an error status, a
\* node other than the root of a file whose path differs from one a dialog
\* may pick: a failed open would have each of these to spoil.
C33_Witness ==
  /\ ~panicked
  /\ \E t \in tasks : t.kind = "open"
  /\ status_message # "Error"
  /\ file_path # Nothing
  /\ node(tree, cursor).parent # None
  /\ cached_board # EmptyBoard

\* The point is off the board, occupied, the ko point, or a point where the
\* group of a stone of the colour placed there has no liberty once the
\* stones it captures are removed.
Illegal(b, col, row, color) ==
  \/ col >= Size \/ row >= Size
  \/ b.cells[row][col] # "Empty"
  \/ b.ko_point = << row, col >>
  \/ \A after \in {ClearCells(SetCell(b.cells, row, col, color),
                                Dead(b.cells, << row, col >>, color))} :
       LibertiesOf(after, GroupOf(after, << row, col >>)) = {}

\* C37: a click on a point that is off the board, occupied, the ko point
\* or a suicide returns the app with an error status and with tree, cursor,
\* cached_board and every other field as they were; any other click adds
\* exactly one node, a move of the colour to play (Black when move_number
\* is even, White when odd) at the point clicked, as last child of the
\* cursor node, and moves the cursor to it.
C37_MoveLegalityGate ==
  ~panicked =>
    \A pt \in ClickPoints :
      \A color \in {IF cached_board.move_number % 2 = 0 THEN "Black"
                     ELSE "White"} :
        \A r \in {update(app, Message("BoardClicked", TRUE, "", << >>,
                                       pt[1], pt[2], 0))} :
          IF Illegal(cached_board, pt[1], pt[2], color)
          THEN r = Updated([app EXCEPT !.status_message = "Error"], Task_none)
          ELSE /\ ~r.panic
               /\ OneNodeAdded(tree, r.app.editor.tree, cursor,
                               << IF color = "Black"
                                  THEN PropB(from_colrow(pt[1], pt[2]))
                                  ELSE PropW(from_colrow(pt[1], pt[2])) >>)
               /\ r.app.editor.cursor = Len(tree.nodes)
               /\ r.task = Task_none
               /\ r.app.file_path = file_path
               /\ r.app.active_game_index = active_game_index

\* A click has captured a stone and set the ko point: of the points
\* clicked next one is the ko point, one is occupied and two are off the
\* board.
C37_Witness ==
  /\ ~panicked
  /\ cached_board.ko_point = << 0, 0 >>
  /\ cached_board.move_number = 1
  /\ node(tree, cursor).properties = << PropB(from_colrow(1, 0)) >>

\* C38: active_game_index is an index of editor.tree.roots and the cursor
\* is a node of the game rooted at roots[active_game_index].
C38_ActiveGameIndex ==
  ~panicked =>
    /\ active_game_index < Len(tree.roots)
    /\ cursor \in Descendants(tree, tree.roots[active_game_index + 1])

\* C39: when file_path is set it names the file the current tree was last
\* loaded from or saved to; a FileSaved that arrives after the tree was
\* replaced does not set it.
C39_FilePathNamesTree ==
  file_path # Nothing => file_path = origin

\* ------------------------------------------------------------------------
\* The cursor under the commands (SpecSession)
\* ------------------------------------------------------------------------

\* C34: no command aborts, the cursor is an id of the arena, and it is
\* reached by child links from a node of the roots list.
C34_CursorValid ==
  /\ ~panicked
  /\ InArena(tree, cursor)
  /\ cursor \in Reach(tree, Yielded(tree.roots), Yielded(tree.roots))

\* After a delete and a SelectGame: the cursor is on the root of the second
\* game and a node of the arena is no longer reached from a root.
C34_Witness ==
  /\ ~panicked
  /\ Len(tree.roots) >= 2
  /\ cursor = tree.roots[2]
  /\ active_game_index = 1
  /\ \E a \in Ids(tree) :
       a \notin Reach(tree, Yielded(tree.roots), Yielded(tree.roots))

\* ------------------------------------------------------------------------
\* The save command of the CLI (SpecCli)
\* ------------------------------------------------------------------------

\* C31: while next_command reads lines, last_sgf is write_sgf of the
\* editor's tree, and the text a save command has written is the text
\* write_sgf gave for the editor's tree at the moment of the write.
C31_SaveNeverStale ==
  /\ loop_pc = "next_command" => last_sgf = write_sgf(tree)
  /\ written.text = written.of_tree

\* A save has written, to a path given on the line, a tree that commands
\* have changed since the start, and the path differs from the file loaded.
C31_Witness ==
  /\ written.path # ""
  /\ written.text \notin {write_sgf(parse_sgf(t).val) :
                             t \in {u \in CliTexts : parse_sgf(u).ok}}
  /\ written.text # write_sgf(GameTree_new)
  /\ cli_file_path \notin {Nothing, Some(written.path)}

====
